---- MODULE Spec2Model ----
(***************************************************************************)
(* Lights-out plan: the Lambda entry point (lambda_function/app.py), the   *)
(* Orchestrator (lambda_function/core/orchestrator.py), the handler        *)
(* registry and the ECS service handler, and the parallel lights_out       *)
(* implementation (lights_out/app/orchestrator.py).                        *)
(***************************************************************************)
EXTENDS Integers, Sequences, FiniteSets, TLC

VARIABLES
    pc,          \* position of app.handler / Orchestrator.run
    action,      \* the action extracted from the event
    config,      \* the configuration loaded from SSM (<<>> before it is loaded)
    registry,    \* HANDLER_REGISTRY: resource type -> handler class
    cp,          \* Control Plane: ECS service id -> [desired, running]
    discovery,   \* what discover_resources did: "pending", "returned" or "raised"
    resources,   \* the list Orchestrator.discover_resources returned
    idx,         \* the per-resource loop's position in resources (1-based)
    results,     \* run's local  results
    succeeded,   \* run's local  succeeded
    failed,      \* run's local  failed
    summary,     \* <<>> or <<the summary run returned>>
    response,    \* <<>> or <<the response app.handler returned>>
    resolved,    \* ids for which get_handler was called, in call order
    dispatched,  \* ids whose handler operation was invoked, in call order
    cpCalls,     \* every Control Plane call made, in call order
    events,      \* what run did, in order: resolve, invoke, call and return events
    event,       \* the value of event["action"] (Absent when the key is missing)
    queried,     \* whether Discovery constructed its strategy and queried the Control Plane
    lo_pc,       \* position of lights_out start_resources / stop_resources
    lo_op,       \* "start" or "stop"
    lo_dry,      \* the dry_run argument
    lo_input,    \* the resources argument
    lo_sorted,   \* sorted_resources
    lo_i,        \* the loop's position in sorted_resources (1-based)
    lo_results,  \* results
    lo_calls,    \* Control Plane calls made by lights_out, in call order
    h_pc,        \* position of one ECSServiceHandler: "none", "ready" or "waiting"
    h_cfg,       \* the config the handler was constructed with (<<>> before)
    h_cp,        \* the Control Plane state of the handler's service
    h_before,    \* the Control Plane state when the operation in progress was called
    h_act,       \* the operation in progress: "start" or "stop"
    h_env,       \* what the Control Plane does during the operation in progress
    h_attempts,  \* polls made by the waiter of the operation in progress
    h_log,       \* the completed start() / stop() calls, in call order
    h_ready,     \* the last is_ready() call made (<<>> before the first)
    td_pc,       \* position of discover: "idle", "querying", "returned" or "raised"
    td_token,    \* pagination_token
    td_sent,     \* the PaginationToken of every get_resources call, in call order
    td_pages,    \* the responses of the Control Plane, in call order
    td_out,      \* discovered_resources
    s_pc,        \* position of one Scheduler: "none", "raised", "ready", "evaluated"
    s_self,      \* the Scheduler object (<<>> before construction)
    s_args,      \* the arguments the Scheduler was constructed with (<<>> before)
    s_dt,        \* the datetime last evaluated (<<>> before)
    s_out,       \* what is_workday, is_working_hours and is_during_work_time returned
    f_log,       \* the register_handler and get_handler calls made, in call order
    b_pc,        \* position of one handler's life: "none", "resource", "bound", "called"
    b_resource,  \* the resource the handler is constructed for
    b_handler,   \* the handler's cluster_name and service_name
    b_call,      \* the describe_services call get_status made
    d_pc,        \* position of the lights_out handler: "idle", "discovered", "raised"
    d_config,    \* the LightsOutConfig: which resource types are enabled
    d_tagged,    \* the tagged resources the Control Plane holds
    d_filters,   \* the ResourceTypeFilters passed to the Control Plane
    d_out        \* what discover_resources returned

orchVars == <<pc, action, config, registry, cp, discovery, resources, idx, results, succeeded,
              failed, summary, response, resolved, dispatched, cpCalls, events,
                   event, queried>>
loVars == <<lo_pc, lo_op, lo_dry, lo_input, lo_sorted, lo_i, lo_results, lo_calls>>
hVars == <<h_pc, h_cfg, h_cp, h_before, h_act, h_env, h_attempts, h_log, h_ready>>
tdVars == <<td_pc, td_token, td_sent, td_pages, td_out>>
sVars == <<s_pc, s_self, s_args, s_dt, s_out>>
fVars == <<f_log>>
bVars == <<b_pc, b_resource, b_handler, b_call>>
dVars == <<d_pc, d_config, d_tagged, d_filters, d_out>>
vars == <<pc, action, config, registry, cp, discovery, resources, idx, results, succeeded,
          failed, summary, response, resolved, dispatched, cpCalls, events, event, queried,
          lo_pc, lo_op, lo_dry, lo_input, lo_sorted, lo_i, lo_results, lo_calls,
          h_pc, h_cfg, h_cp, h_before, h_act, h_env, h_attempts, h_log, h_ready,
          td_pc, td_token, td_sent, td_pages, td_out, s_pc, s_self, s_args, s_dt, s_out,
          f_log, b_pc, b_resource, b_handler, b_call,
          d_pc, d_config, d_tagged, d_filters, d_out>>

(***************************************************************************)
(* Bounds of the model.                                                    *)
(***************************************************************************)
MaxRes == 2        \* longest list Discovery returns
MaxPriority == 1   \* priorities are 0..MaxPriority
MaxCount == 1      \* desired counts are 0..MaxCount
MaxLen == 2        \* longest list given to start_resources / stop_resources
MaxOps == 2        \* most start() / stop() calls made on one handler
MaxPages == 2      \* most pages the Control Plane returns to one discovery
MaxPageLen == 1    \* most resource mappings in one page
MaxTick == 3       \* times of day are 0..MaxTick
MaxCalls == 3      \* most register_handler / get_handler calls
MaxIdLen == 3      \* longest resource identifier, in names and separators

None == "None"
ScheduleTag == "lights-out:schedule"
Priorities == 0..MaxPriority
Counts == 0..MaxCount

\* app.py: VALID_ACTIONS
VALID_ACTIONS == {"start", "stop", "status", "discover"}
\* the values event["action"] is drawn from; Absent is an event without the key
Absent == "<absent>"
\* an action that is a JSON array: a Python list, which cannot be hashed
UnhashableAction == "['stop']"
Hashable(v) == v # UnhashableAction
EventActions == VALID_ACTIONS \cup {"restart", UnhashableAction, Absent}

ResourceTypes == {"ecs-service", "unknown-type"}
TagMaps == {<<>>, [k \in {ScheduleTag} |-> "office-hours"]}

\* tag_discovery.py: DEFAULT_GROUP
DEFAULT_GROUP == "default"

\* discovery/base.py: DiscoveredResource (metadata is not read by the operations
\* modelled here; the id stands for arn and resource_id, and the resources carry no
\* group tag)
DiscoveredResource(i, a) ==
    [id |-> i, resource_type |-> a.resource_type, priority |-> a.priority,
     group |-> DEFAULT_GROUP, tags |-> a.tags]
ListsOver(attrs) ==
    UNION { { [i \in 1..n |-> DiscoveredResource(i, f[i])] : f \in [1..n -> attrs] }
            : n \in 0..MaxRes }
\* tag_discovery.py: DEFAULT_PRIORITY
DEFAULT_PRIORITY == 50
\* the lists Discovery may return: resources without a priority tag ...
ResourceLists ==
    ListsOver([resource_type : ResourceTypes, priority : {DEFAULT_PRIORITY}, tags : TagMaps])
\* ... and resources that carry one
PriorityLists ==
    ListsOver([resource_type : ResourceTypes, priority : Priorities, tags : TagMaps])

\* the configurations load_config_from_ssm may return (method None: no discovery.method)
Configs ==
    [method : {"tags", "unknown", None}, schedule_tag : {ScheduleTag},
     wait_for_stable : BOOLEAN, default_desired_count : 1..MaxCount]

\* what the Control Plane does during one handler operation
\* (an operation ends at its first failing call, so at most one call fails)
Envs ==
    {e \in [client : BOOLEAN, describe : {"ok", "error"}, update : BOOLEAN, wait : BOOLEAN] :
        Cardinality({f \in {"client", "update", "wait"} : ~e[f]}
                    \cup {f \in {"describe"} : e[f] = "error"}) <= 1}

(***************************************************************************)
(* core/scheduler.py is imported for get_schedule but does not define it;  *)
(* it is modelled from the specification: the schedule identifier is the   *)
(* value of the configured schedule tag, None when the tag is absent.      *)
(***************************************************************************)
get_schedule(resource, schedule_tag) ==
    IF schedule_tag \in DOMAIN resource.tags THEN resource.tags[schedule_tag] ELSE None

\* `if not schedule`
Falsy(v) == v = None \/ v = ""

(***************************************************************************)
(* handlers/factory.py                                                     *)
(***************************************************************************)
HANDLER_REGISTRY == [t \in {"ecs-service"} |-> "ECSServiceHandler"]

\* HANDLER_REGISTRY.get(resource_type): the handler class, or None
registry_get(reg, resource_type) ==
    IF resource_type \in DOMAIN reg THEN reg[resource_type] ELSE None

\* a registration that leaves a type already registered as it is
registry_set_keeping_first(reg, resource_type, handler_class) ==
    IF resource_type \in DOMAIN reg THEN reg
    ELSE [t \in DOMAIN reg \cup {resource_type} |->
             IF t = resource_type THEN handler_class ELSE reg[t]]

\* HANDLER_REGISTRY[resource_type] = handler_class
registry_set(reg, resource_type, handler_class) ==
    [t \in DOMAIN reg \cup {resource_type} |->
        IF t = resource_type THEN handler_class ELSE reg[t]]

\* what get_handler returns when it returns None
NoHandler == [class |-> None, resource |-> 0, config |-> None]

\* get_handler: an instance of the registered class, constructed over the resource
\* and the configuration, or None
get_handler(reg, resource_type, resource, cfg) ==
    LET handler_class == registry_get(reg, resource_type)
    IN  IF handler_class # None
        THEN [class |-> handler_class, resource |-> resource, config |-> cfg]
        ELSE NoHandler

(***************************************************************************)
(* handlers/base.py and handlers/ecs_service.py                            *)
(***************************************************************************)
\* a result whose error field is left at its default
HandlerResultWithoutError(success, act, resource, message, previous_state, error) ==
    [success |-> success, action |-> act, resource_type |-> resource.resource_type,
     resource_id |-> resource.id, message |-> message,
     previous_state |-> previous_state, error |-> None]

\* base.py: HandlerResult (previous_state and error are Optional: <<>> and None stand
\* for Python's None)
HandlerResult(success, act, resource, message, previous_state, error) ==
    [success |-> success, action |-> act, resource_type |-> resource.resource_type,
     resource_id |-> resource.id, message |-> message,
     previous_state |-> previous_state, error |-> error]

\* ResourceHandler._get_resource_defaults, with the .get defaults its callers apply
get_resource_defaults(cfg, resource) ==
    IF resource.resource_type = "ecs-service"
    THEN [wait_for_stable |-> cfg.wait_for_stable,
          stable_timeout_seconds |-> IF "stable_timeout_seconds" \in DOMAIN cfg
                                     THEN cfg.stable_timeout_seconds ELSE 300,
          default_desired_count |-> IF "default_desired_count" \in DOMAIN cfg
                                    THEN cfg.default_desired_count ELSE 1]
    ELSE [wait_for_stable |-> FALSE, stable_timeout_seconds |-> 300,
          default_desired_count |-> 1]

DescribeCall(id) == [op |-> "describe_services", id |-> id, count |-> -1]
UpdateCall(id, n) == [op |-> "update_service", id |-> id, count |-> n]
WaitCall(id) == [op |-> "wait_services_stable", id |-> id, count |-> -1]
IsMutating(call) == call.op = "update_service"

\* ECSServiceHandler.get_status: the snapshot, or the exception it re-raises
get_status(cpS, resource, env) ==
    IF env.describe # "ok"
    THEN [ok |-> FALSE, error |-> "describe_services failed"]
    ELSE IF resource.id \notin DOMAIN cpS
    THEN [ok |-> FALSE, error |-> "Service not found in cluster"]
    ELSE [ok |-> TRUE,
          status |-> [desired_count |-> cpS[resource.id].desired,
                      running_count |-> cpS[resource.id].running,
                      status |-> "ACTIVE",
                      is_stopped |-> cpS[resource.id].desired = 0]]

\* is_ready letting the failure of the status query out
is_ready_propagating(cpS, resource, env) ==
    LET st == get_status(cpS, resource, env)
    IN  [returned |-> IF st.ok THEN st.status.desired_count = st.status.running_count
                      ELSE FALSE,
         raised |-> ~st.ok, cp |-> cpS, calls |-> <<DescribeCall(resource.id)>>]

\* ECSServiceHandler.is_ready: desired_count == running_count, False when get_status
\* raises
is_ready(cpS, resource, env) ==
    LET st == get_status(cpS, resource, env)
    IN  [returned |-> IF st.ok THEN st.status.desired_count = st.status.running_count
                      ELSE FALSE,
         raised |-> FALSE, cp |-> cpS, calls |-> <<DescribeCall(resource.id)>>]

\* an update_service call that is accepted and changes nothing
SetDesiredDropped(cpS, id, n) == cpS

\* update_service(desiredCount = n) accepted by the Control Plane
SetDesired(cpS, id, n) == [cpS EXCEPT ![id].desired = n]
\* the waiter returned: the running count has reached the desired count
Stabilized(cpS, id) == [cpS EXCEPT ![id].running = cpS[id].desired]

\* _wait_for_stable line 355
polling_interval == 15

\* more attempts than the timeout allows
max_attempts_rounding_up(timeout) == timeout \div polling_interval + 1

\* _wait_for_stable line 356: max(1, timeout // polling_interval)
max_attempts(timeout) ==
    IF timeout \div polling_interval > 1 THEN timeout \div polling_interval ELSE 1

\* an operation that puts the former count back when the wait fails
ScaleToRollingBack(cpS, resource, cfg, env, act, target, current, message) ==
    LET id == resource.id
        defaults == get_resource_defaults(cfg, resource)
        calls == <<DescribeCall(id), UpdateCall(id, target)>>
        failure(e) == HandlerResult(FALSE, act, resource,
                          IF act = "stop" THEN "Stop operation failed"
                          ELSE "Start operation failed", <<>>, e)
    IN  IF ~env.update
        THEN [result |-> failure("update_service failed"), cp |-> cpS, calls |-> calls]
        ELSE IF defaults.wait_for_stable
        THEN IF env.wait
             THEN [result |-> HandlerResult(TRUE, act, resource, message, <<current>>, None),
                   cp |-> Stabilized(SetDesired(cpS, id, target), id),
                   calls |-> Append(calls, WaitCall(id))]
             ELSE [result |-> failure("Waiter ServicesStable failed"),
                   cp |-> cpS,
                   calls |-> Append(calls, WaitCall(id))]
        ELSE [result |-> HandlerResult(TRUE, act, resource, message, <<current>>, None),
              cp |-> SetDesired(cpS, id, target), calls |-> calls]

\* update_service and the wait outside the try block: the exception leaves the operation
ScaleToUnguarded(cpS, resource, cfg, env, act, target, current, message) ==
    LET id == resource.id
        defaults == get_resource_defaults(cfg, resource)
        calls == <<DescribeCall(id), UpdateCall(id, target)>>
    IN  IF ~env.update
        THEN [result |-> [raised |-> "update_service failed"], cp |-> cpS, calls |-> calls]
        ELSE IF defaults.wait_for_stable
        THEN IF env.wait
             THEN [result |-> HandlerResult(TRUE, act, resource, message, <<current>>, None),
                   cp |-> Stabilized(SetDesired(cpS, id, target), id),
                   calls |-> Append(calls, WaitCall(id))]
             ELSE [result |-> [raised |-> "Waiter ServicesStable failed"],
                   cp |-> SetDesired(cpS, id, target),
                   calls |-> Append(calls, WaitCall(id))]
        ELSE [result |-> HandlerResult(TRUE, act, resource, message, <<current>>, None),
              cp |-> SetDesired(cpS, id, target), calls |-> calls]

\* update_service called again after it failed
ScaleToRetrying(cpS, resource, cfg, env, act, target, current, message) ==
    LET id == resource.id
        defaults == get_resource_defaults(cfg, resource)
        calls == <<DescribeCall(id), UpdateCall(id, target)>>
        failure(e) == HandlerResult(FALSE, act, resource,
                          IF act = "stop" THEN "Stop operation failed"
                          ELSE "Start operation failed", <<>>, e)
    IN  IF ~env.update
        THEN [result |-> failure("update_service failed"), cp |-> cpS,
              calls |-> Append(calls, UpdateCall(id, target))]
        ELSE IF defaults.wait_for_stable
        THEN IF env.wait
             THEN [result |-> HandlerResult(TRUE, act, resource, message, <<current>>, None),
                   cp |-> Stabilized(SetDesired(cpS, id, target), id),
                   calls |-> Append(calls, WaitCall(id))]
             ELSE [result |-> failure("Waiter ServicesStable failed"),
                   cp |-> SetDesired(cpS, id, target),
                   calls |-> Append(calls, WaitCall(id))]
        ELSE [result |-> HandlerResult(TRUE, act, resource, message, <<current>>, None),
              cp |-> SetDesired(cpS, id, target), calls |-> calls]

\* steps 3-5 of stop() and 4-6 of start(): update_service, the optional wait, the result
ScaleTo(cpS, resource, cfg, env, act, target, current, message) ==
    LET id == resource.id
        defaults == get_resource_defaults(cfg, resource)
        calls == <<DescribeCall(id), UpdateCall(id, target)>>
        failure(e) == HandlerResult(FALSE, act, resource,
                          IF act = "stop" THEN "Stop operation failed"
                          ELSE "Start operation failed", <<>>, e)
    IN  IF ~env.update
        THEN [result |-> failure("update_service failed"), cp |-> cpS, calls |-> calls]
        ELSE IF defaults.wait_for_stable
        THEN IF env.wait
             THEN [result |-> HandlerResult(TRUE, act, resource, message, <<current>>, None),
                   cp |-> Stabilized(SetDesired(cpS, id, target), id),
                   calls |-> Append(calls, WaitCall(id))]
             ELSE [result |-> failure("Waiter ServicesStable failed"),
                   cp |-> SetDesired(cpS, id, target),
                   calls |-> Append(calls, WaitCall(id))]
        ELSE [result |-> HandlerResult(TRUE, act, resource, message, <<current>>, None),
              cp |-> SetDesired(cpS, id, target), calls |-> calls]

\* stop() without the idempotent check of lines 126-142
ECS_stop_without_check(cpS, resource, cfg, env) ==
    LET st == get_status(cpS, resource, env)
    IN  IF ~st.ok
        THEN [result |-> HandlerResult(FALSE, "stop", resource, "Stop operation failed",
                                       <<>>, st.error),
              cp |-> cpS, calls |-> <<DescribeCall(resource.id)>>]
        ELSE ScaleTo(cpS, resource, cfg, env, "stop", 0, st.status, "Service scaled to 0")

\* ECSServiceHandler.stop
ECS_stop(cpS, resource, cfg, env) ==
    LET st == get_status(cpS, resource, env)
    IN  IF ~st.ok
        THEN [result |-> HandlerResult(FALSE, "stop", resource, "Stop operation failed",
                                       <<>>, st.error),
              cp |-> cpS, calls |-> <<DescribeCall(resource.id)>>]
        ELSE IF st.status.is_stopped
        THEN [result |-> HandlerResult(TRUE, "stop", resource, "Service already stopped",
                                       <<st.status>>, None),
              cp |-> cpS, calls |-> <<DescribeCall(resource.id)>>]
        ELSE ScaleTo(cpS, resource, cfg, env, "stop", 0, st.status, "Service scaled to 0")

\* start() without the idempotent check of lines 229-245
ECS_start_without_check(cpS, resource, cfg, env) ==
    LET st == get_status(cpS, resource, env)
        target_count == get_resource_defaults(cfg, resource).default_desired_count
    IN  IF ~st.ok
        THEN [result |-> HandlerResult(FALSE, "start", resource, "Start operation failed",
                                       <<>>, st.error),
              cp |-> cpS, calls |-> <<DescribeCall(resource.id)>>]
        ELSE ScaleTo(cpS, resource, cfg, env, "start", target_count, st.status,
                     "Service scaled to target")

\* a start() that only ever scales up
ECS_start_scaling_up_only(cpS, resource, cfg, env) ==
    LET st == get_status(cpS, resource, env)
        target_count == get_resource_defaults(cfg, resource).default_desired_count
    IN  IF ~st.ok
        THEN [result |-> HandlerResult(FALSE, "start", resource, "Start operation failed",
                                       <<>>, st.error),
              cp |-> cpS, calls |-> <<DescribeCall(resource.id)>>]
        ELSE IF st.status.desired_count >= target_count
        THEN [result |-> HandlerResult(TRUE, "start", resource,
                                       "Service already at desired count",
                                       <<st.status>>, None),
              cp |-> cpS, calls |-> <<DescribeCall(resource.id)>>]
        ELSE ScaleTo(cpS, resource, cfg, env, "start", target_count, st.status,
                     "Service scaled to target")

\* ECSServiceHandler.start
ECS_start(cpS, resource, cfg, env) ==
    LET st == get_status(cpS, resource, env)
        target_count == get_resource_defaults(cfg, resource).default_desired_count
    IN  IF ~st.ok
        THEN [result |-> HandlerResult(FALSE, "start", resource, "Start operation failed",
                                       <<>>, st.error),
              cp |-> cpS, calls |-> <<DescribeCall(resource.id)>>]
        ELSE IF st.status.desired_count = target_count
        THEN [result |-> HandlerResult(TRUE, "start", resource,
                                       "Service already at desired count",
                                       <<st.status>>, None),
              cp |-> cpS, calls |-> <<DescribeCall(resource.id)>>]
        ELSE ScaleTo(cpS, resource, cfg, env, "start", target_count, st.status,
                     "Service scaled to target")

(***************************************************************************)
(* core/orchestrator.py: Orchestrator                                      *)
(***************************************************************************)
\* the ECS services among the discovered resources
EcsIds(list) == {i \in DOMAIN list : list[i].resource_type = "ecs-service"}

\* discover_resources raising for a method it does not know
DiscoverOutcomesRaisingOnUnknown(cfg, lists) ==
    IF cfg.method = "tags"
    THEN {[ok |-> TRUE, list |-> l, queried |-> TRUE] : l \in lists}
         \cup {[ok |-> FALSE, list |-> <<>>, queried |-> q] : q \in BOOLEAN}
    ELSE {[ok |-> FALSE, list |-> <<>>, queried |-> FALSE]}

\* Orchestrator.discover_resources: what the call may do under configuration cfg.
\* With method "tags" the strategy either raises (while it is constructed, or in its
\* paged query) or returns a list; any other method, and a missing one, returns the
\* empty list.
DiscoverOutcomes(cfg, lists) ==
    IF cfg.method = "tags"
    THEN {[ok |-> TRUE, list |-> l, queried |-> TRUE] : l \in lists}
         \cup {[ok |-> FALSE, list |-> <<>>, queried |-> q] : q \in BOOLEAN}
    ELSE {[ok |-> TRUE, list |-> <<>>, queried |-> FALSE]}

\* the order in which run's loop visits the discovered resources: `for resource in resources`
RunOrder(list, act) == list

\* a dispatch in which "status" goes to stop() as every action but "start" does
DispatchStatusToStop(resource, act, cfg, reg, cpS, env) ==
    LET handler_class == registry_get(reg, resource.resource_type)
        quiet == [cp |-> cpS, calls |-> <<>>, result |-> <<>>, error |-> None]
        op == IF act = "start" THEN ECS_start(cpS, resource, cfg, env)
              ELSE ECS_stop(cpS, resource, cfg, env)
    IN  IF handler_class = None
        THEN [tag |-> "nohandler", resolved |-> TRUE, dispatched |-> FALSE] @@ quiet
        ELSE IF ~env.client
        THEN [tag |-> "exception", resolved |-> TRUE, dispatched |-> FALSE,
              error |-> "boto3 client could not be created"] @@ quiet
        ELSE IF act \in {"start", "stop", "status"}
        THEN [tag |-> "result", resolved |-> TRUE, dispatched |-> TRUE,
              result |-> <<op.result>>, cp |-> op.cp, calls |-> op.calls, error |-> None]
        ELSE [tag |-> "invalid", resolved |-> TRUE, dispatched |-> FALSE] @@ quiet

\* lines 80-120 of run's loop for one scheduled resource: resolve the handler and
\* dispatch the action to it, up to the point where the counters are updated
Dispatch(resource, act, cfg, reg, cpS, env) ==
    LET handler_class == registry_get(reg, resource.resource_type)
        quiet == [cp |-> cpS, calls |-> <<>>, result |-> <<>>, error |-> None]
        op == IF act = "start" THEN ECS_start(cpS, resource, cfg, env)
              ELSE ECS_stop(cpS, resource, cfg, env)
        st == get_status(cpS, resource, env)
    IN  IF handler_class = None
        THEN [tag |-> "nohandler", resolved |-> TRUE, dispatched |-> FALSE] @@ quiet
        ELSE IF ~env.client
        THEN [tag |-> "exception", resolved |-> TRUE, dispatched |-> FALSE,
              error |-> "boto3 client could not be created"] @@ quiet
        ELSE IF act \in {"start", "stop"}
        THEN [tag |-> "result", resolved |-> TRUE, dispatched |-> TRUE,
              result |-> <<op.result>>, cp |-> op.cp, calls |-> op.calls, error |-> None]
        ELSE IF act = "status"
        THEN IF st.ok
             THEN [tag |-> "result", resolved |-> TRUE, dispatched |-> TRUE,
                   result |-> <<[success |-> TRUE, resource_id |-> resource.id,
                                 resource_type |-> resource.resource_type,
                                 status |-> st.status]>>,
                   cp |-> cpS, calls |-> <<DescribeCall(resource.id)>>, error |-> None]
             ELSE [tag |-> "exception", resolved |-> TRUE, dispatched |-> TRUE,
                   result |-> <<>>, cp |-> cpS, calls |-> <<DescribeCall(resource.id)>>,
                   error |-> st.error]
        ELSE [tag |-> "invalid", resolved |-> TRUE, dispatched |-> FALSE] @@ quiet

\* the loop body without the schedule check of lines 69-78
LoopBodyWithoutScheduleCheck(resource, act, cfg, reg, cpS, env) ==
    Dispatch(resource, act, cfg, reg, cpS, env)

\* the body of the try block of run's loop for one resource (lines 69-120), up to the
\* point where the counters are updated
LoopBody(resource, act, cfg, reg, cpS, env) ==
    IF Falsy(get_schedule(resource, cfg.schedule_tag))
    THEN [tag |-> "skip", resolved |-> FALSE, dispatched |-> FALSE, cp |-> cpS,
          calls |-> <<>>, result |-> <<>>, error |-> None]
    ELSE Dispatch(resource, act, cfg, reg, cpS, env)

Event(kind, id) == [kind |-> kind, id |-> id]

\* run fetching the next resource's handler without waiting for the operation it
\* invoked to return
OpEventsNotAwaited(resource, o) ==
    (IF o.resolved THEN <<Event("resolve", resource.id)>> ELSE <<>>)
    \o (IF o.dispatched
        THEN <<Event("invoke", resource.id)>>
             \o [k \in DOMAIN o.calls |-> Event(o.calls[k].op, o.calls[k].id)]
        ELSE <<>>)

\* what one iteration of run's loop does, in program order: get_handler (line 80), the
\* call of the handler operation (lines 93-98), the Control Plane calls the operation
\* makes, and the operation's return or exception
OpEvents(resource, o) ==
    (IF o.resolved THEN <<Event("resolve", resource.id)>> ELSE <<>>)
    \o (IF o.dispatched
        THEN <<Event("invoke", resource.id)>>
             \o [k \in DOMAIN o.calls |-> Event(o.calls[k].op, o.calls[k].id)]
             \o <<Event("return", resource.id)>>
        ELSE <<>>)

\* a skipped resource counted as a failure
OnSkipCountedFailed(resource) ==
    /\ failed' = failed + 1
    /\ UNCHANGED <<results, succeeded>>
    /\ idx' = idx + 1 /\ pc' = pc

\* lines 70-78: no schedule, `continue`
OnSkip(resource) ==
    /\ UNCHANGED <<results, succeeded, failed>>
    /\ idx' = idx + 1 /\ pc' = pc

\* a resource without a handler passed over without counting it
OnNoHandlerUncounted(resource) ==
    /\ UNCHANGED <<results, succeeded, failed>>
    /\ idx' = idx + 1 /\ pc' = pc

\* lines 81-90: no handler, `failed += 1; continue`
OnNoHandler(resource) ==
    /\ failed' = failed + 1
    /\ UNCHANGED <<results, succeeded>>
    /\ idx' = idx + 1 /\ pc' = pc

\* lines 105-111: invalid action, `failed += 1; continue`
OnInvalidAction(resource) ==
    /\ failed' = failed + 1
    /\ UNCHANGED <<results, succeeded>>
    /\ idx' = idx + 1 /\ pc' = pc

\* lines 113-120: append the result and classify it by its success field
OnResult(resource, result) ==
    /\ results' = Append(results, result)
    /\ IF result.success
       THEN succeeded' = succeeded + 1 /\ failed' = failed
       ELSE failed' = failed + 1 /\ succeeded' = succeeded
    /\ idx' = idx + 1 /\ pc' = pc

\* the loop without its `except Exception` clause: the exception leaves run
OnExceptionPropagates(resource, error) ==
    /\ pc' = "raised"
    /\ UNCHANGED <<results, succeeded, failed, idx>>

\* lines 122-138: `except Exception`, the failure becomes a failed outcome
OnException(resource, error) ==
    /\ failed' = failed + 1
    /\ results' = Append(results, [success |-> FALSE, resource_id |-> resource.id,
                                   resource_type |-> resource.resource_type,
                                   error |-> error])
    /\ UNCHANGED succeeded
    /\ idx' = idx + 1 /\ pc' = pc

(***************************************************************************)
(* app.py: handler                                                         *)
(***************************************************************************)
Timestamp == "timestamp"
RequestId == "request_id"

\* _error_response
error_response(status_code, error) ==
    [statusCode |-> status_code,
     body |-> [error |-> error, timestamp |-> Timestamp, request_id |-> RequestId]]

\* the entry point with "stop" as the default action
handler_defaulting_to_stop(ev) ==
    /\ pc = "idle"
    /\ event' = ev
    /\ action' = IF ev = Absent THEN "stop" ELSE ev
    /\ IF ~Hashable(action')
       THEN /\ response' = <<error_response(500, "unhashable type: 'list'")>>
            /\ pc' = "returned"
            /\ UNCHANGED config
       ELSE IF action' \notin VALID_ACTIONS
       THEN /\ response' = <<error_response(400, <<"Invalid action", action'>>)>>
            /\ pc' = "returned"
            /\ UNCHANGED config
       ELSE \/ /\ \E c \in Configs : config' = <<c>>
               /\ pc' = IF action' = "discover" THEN "discover" ELSE "run"
               /\ UNCHANGED response
            \/ /\ response' = <<error_response(500, "Failed to load SSM parameter")>>
               /\ pc' = "returned"
               /\ UNCHANGED config
    /\ UNCHANGED <<registry, cp, discovery, resources, idx, results, succeeded, failed,
                   summary, resolved, dispatched, cpCalls, events, queried>>
    /\ UNCHANGED <<loVars, hVars, tdVars, sVars, fVars, bVars, dVars>>

\* lines 60-101: extract the action, validate it, load the configuration.
\* `action not in VALID_ACTIONS` hashes the action: for an unhashable one it raises
\* TypeError inside the try block, which the except clause (lines 153-168) answers.
handler(ev) ==
    /\ pc = "idle"
    /\ event' = ev
    /\ action' = IF ev = Absent THEN "status" ELSE ev
    /\ IF ~Hashable(action')
       THEN /\ response' = <<error_response(500, "unhashable type: 'list'")>>
            /\ pc' = "returned"
            /\ UNCHANGED config
       ELSE IF action' \notin VALID_ACTIONS
       THEN /\ response' = <<error_response(400, <<"Invalid action", action'>>)>>
            /\ pc' = "returned"
            /\ UNCHANGED config
       ELSE \/ /\ \E c \in Configs : config' = <<c>>
               /\ pc' = IF action' = "discover" THEN "discover" ELSE "run"
               /\ UNCHANGED response
            \/ /\ response' = <<error_response(500, "Failed to load SSM parameter")>>
               /\ pc' = "returned"
               /\ UNCHANGED config
    /\ UNCHANGED <<registry, cp, discovery, resources, idx, results, succeeded, failed,
                   summary, resolved, dispatched, cpCalls, events, queried>>
    /\ UNCHANGED <<loVars, hVars, tdVars, sVars, fVars, bVars, dVars>>

\* the Control Plane states the services of a discovered list may be in
ServiceStates(list) ==
    {[i \in EcsIds(list) |-> [desired |-> f[i], running |-> f[i]]] :
        f \in [EcsIds(list) -> Counts]}

\* lines 112-118: the entry the "discover" response holds for one resource
DiscoverEntry(r) ==
    [resource_type |-> r.resource_type, resource_id |-> r.id, arn |-> r.id,
     priority |-> r.priority, group |-> r.group]

\* the "discover" action going on into the per-resource loop after the discovery
handler_discover_running(lists) ==
    /\ pc = "discover"
    /\ \E d \in DiscoverOutcomes(config[1], lists) :
          /\ queried' = d.queried
          /\ discovery' = IF d.ok THEN "returned" ELSE "raised"
          /\ resources' = d.list
          /\ cp' \in ServiceStates(d.list)
          /\ UNCHANGED response
    /\ pc' = "loop"
    /\ UNCHANGED <<action, config, registry, idx, results, succeeded, failed, summary,
                   resolved, dispatched, cpCalls, events, event>>
    /\ UNCHANGED <<loVars, hVars, tdVars, sVars, fVars, bVars, dVars>>

\* lines 104-123 and 139-168: the "discover" action
handler_discover_from(lists) ==
    /\ pc = "discover"
    /\ \E d \in DiscoverOutcomes(config[1], lists) :
          /\ queried' = d.queried
          /\ IF d.ok
             THEN /\ discovery' = "returned"
                  /\ resources' = d.list
                  /\ cp' \in ServiceStates(d.list)
                  /\ response' = <<[statusCode |-> 200,
                                    body |-> [action |-> action,
                                              discovered_count |-> Len(d.list),
                                              resources |-> [i \in DOMAIN d.list |->
                                                                DiscoverEntry(d.list[i])],
                                              timestamp |-> Timestamp,
                                              request_id |-> RequestId]]>>
             ELSE /\ discovery' = "raised"
                  /\ response' = <<error_response(500, "discovery failed")>>
                  /\ UNCHANGED <<resources, cp>>
    /\ pc' = "returned"
    /\ UNCHANGED <<action, config, registry, idx, results, succeeded, failed, summary,
                   resolved, dispatched, cpCalls, events, event>>
    /\ UNCHANGED <<loVars, hVars, tdVars, sVars, fVars, bVars, dVars>>

\* run with a discovery failure swallowed: the run goes on over no resources
run_discover_swallowing(lists) ==
    /\ pc = "run"
    /\ \E d \in DiscoverOutcomes(config[1], lists) :
          /\ queried' = d.queried
          /\ discovery' = IF d.ok THEN "returned" ELSE "raised"
          /\ resources' = d.list
          /\ cp' \in ServiceStates(d.list)
          /\ pc' = "loop"
          /\ UNCHANGED response
    /\ idx' = 1 /\ results' = <<>> /\ succeeded' = 0 /\ failed' = 0
    /\ UNCHANGED <<action, config, registry, summary, resolved, dispatched, cpCalls, events,
                   event>>
    /\ UNCHANGED <<loVars, hVars, tdVars, sVars, fVars, bVars, dVars>>

\* orchestrator.py lines 53-65: run discovers the resources; an exception of the
\* discovery leaves run and is caught by app.handler (lines 153-168)
run_discover_from(lists) ==
    /\ pc = "run"
    /\ \E d \in DiscoverOutcomes(config[1], lists) :
          /\ queried' = d.queried
          /\ IF d.ok
             THEN /\ discovery' = "returned"
                  /\ resources' = d.list
                  /\ cp' \in ServiceStates(d.list)
                  /\ pc' = "loop"
                  /\ UNCHANGED response
             ELSE /\ discovery' = "raised"
                  /\ response' = <<error_response(500, "discovery failed")>>
                  /\ pc' = "returned"
                  /\ UNCHANGED <<resources, cp>>
    /\ idx' = 1 /\ results' = <<>> /\ succeeded' = 0 /\ failed' = 0
    /\ UNCHANGED <<action, config, registry, summary, resolved, dispatched, cpCalls, events,
                   event>>
    /\ UNCHANGED <<loVars, hVars, tdVars, sVars, fVars, bVars, dVars>>

\* orchestrator.py lines 67-138: one iteration of run's loop
run_resource ==
    /\ pc = "loop"
    /\ idx <= Len(resources)
    /\ \E env \in Envs :
          LET resource == RunOrder(resources, action)[idx]
              o == LoopBody(resource, action, config[1], registry, cp, env)
          IN  /\ cp' = o.cp
              /\ cpCalls' = cpCalls \o o.calls
              /\ resolved' = IF o.resolved THEN Append(resolved, resource.id) ELSE resolved
              /\ dispatched' = IF o.dispatched THEN Append(dispatched, resource.id)
                               ELSE dispatched
              /\ events' = events \o OpEvents(resource, o)
              /\ CASE o.tag = "skip" -> OnSkip(resource)
                   [] o.tag = "nohandler" -> OnNoHandler(resource)
                   [] o.tag = "invalid" -> OnInvalidAction(resource)
                   [] o.tag = "result" -> OnResult(resource, o.result[1])
                   [] o.tag = "exception" -> OnException(resource, o.error)
    /\ UNCHANGED <<action, config, registry, discovery, resources, summary, response,
                   event, queried>>
    /\ UNCHANGED <<loVars, hVars, tdVars, sVars, fVars, bVars, dVars>>

\* a run that reports a top-level failure when one of its resources failed
run_return_all_or_nothing ==
    /\ pc = "loop"
    /\ idx > Len(resources)
    /\ summary' = <<[total |-> Len(resources), succeeded |-> succeeded,
                     failed |-> failed, results |-> results]>>
    /\ response' = IF failed > 0
                   THEN <<error_response(500, "some resources failed")>>
                   ELSE <<[statusCode |-> 200,
                           body |-> [action |-> action, total |-> Len(resources),
                                     succeeded |-> succeeded, failed |-> failed,
                                     results |-> results, timestamp |-> Timestamp,
                                     request_id |-> RequestId]]>>
    /\ pc' = "returned"
    /\ UNCHANGED <<action, config, registry, cp, discovery, resources, idx, results,
                   succeeded, failed, resolved, dispatched, cpCalls, events, event, queried>>
    /\ UNCHANGED <<loVars, hVars, tdVars, sVars, fVars, bVars, dVars>>

\* orchestrator.py lines 140-152 and app.py lines 129-151: the summary and the response
run_return ==
    /\ pc = "loop"
    /\ idx > Len(resources)
    /\ summary' = <<[total |-> Len(resources), succeeded |-> succeeded,
                     failed |-> failed, results |-> results]>>
    /\ response' = <<[statusCode |-> 200,
                      body |-> [action |-> action, total |-> Len(resources),
                                succeeded |-> succeeded, failed |-> failed,
                                results |-> results, timestamp |-> Timestamp,
                                request_id |-> RequestId]]>>
    /\ pc' = "returned"
    /\ UNCHANGED <<action, config, registry, cp, discovery, resources, idx, results,
                   succeeded, failed, resolved, dispatched, cpCalls, events,
                   event, queried>>
    /\ UNCHANGED <<loVars, hVars, tdVars, sVars, fVars, bVars, dVars>>

\* factory.py register_handler, called while the process starts up
register_handler(resource_type, handler_class) ==
    /\ pc = "idle"
    /\ registry' = registry_set(registry, resource_type, handler_class)
    /\ UNCHANGED <<pc, action, config, cp, discovery, resources, idx, results, succeeded,
                   failed, summary, response, resolved, dispatched, cpCalls, events,
                   event, queried>>
    /\ UNCHANGED <<loVars, hVars, tdVars, sVars, fVars, bVars, dVars>>

OrchInit ==
    /\ pc = "idle" /\ action = None /\ config = <<>>
    /\ registry = HANDLER_REGISTRY
    /\ cp = <<>> /\ discovery = "pending" /\ resources = <<>> /\ idx = 1
    /\ results = <<>> /\ succeeded = 0 /\ failed = 0
    /\ summary = <<>> /\ response = <<>>
    /\ resolved = <<>> /\ dispatched = <<>> /\ cpCalls = <<>> /\ events = <<>>
    /\ event = None /\ queried = FALSE

LOIdle ==
    /\ lo_pc = "idle" /\ lo_op = None /\ lo_dry = FALSE /\ lo_input = <<>>
    /\ lo_sorted = <<>> /\ lo_i = 1 /\ lo_results = <<>> /\ lo_calls = <<>>

HIdle ==
    /\ h_pc = "none" /\ h_cfg = <<>> /\ h_cp = <<>> /\ h_before = <<>>
    /\ h_act = None /\ h_env = <<>> /\ h_attempts = 0 /\ h_log = <<>>
    /\ h_ready = <<>>

TDIdle ==
    /\ td_pc = "idle" /\ td_token = <<>> /\ td_sent = <<>> /\ td_pages = <<>>
    /\ td_out = <<>>

SIdle == s_pc = "none" /\ s_self = <<>> /\ s_args = <<>> /\ s_dt = <<>> /\ s_out = <<>>

FIdle == f_log = <<>>

BIdle == b_pc = "none" /\ b_resource = <<>> /\ b_handler = <<>> /\ b_call = <<>>

DIdle ==
    /\ d_pc = "idle" /\ d_config = <<>> /\ d_tagged = <<>> /\ d_filters = <<>>
    /\ d_out = <<>>

Init == OrchInit /\ LOIdle /\ HIdle /\ TDIdle /\ SIdle /\ FIdle /\ BIdle /\ DIdle

handler_discover == handler_discover_from(ResourceLists)
run_discover == run_discover_from(ResourceLists)

Next ==
    \/ \E ev \in EventActions : handler(ev)
    \/ \E t \in ResourceTypes : register_handler(t, "ECSServiceHandler")
    \/ handler_discover
    \/ run_discover
    \/ run_resource
    \/ run_return

\* one invocation of the Lambda entry point
Spec == Init /\ [][Next]_vars

handler_discover_priority == handler_discover_from(PriorityLists)
run_discover_priority == run_discover_from(PriorityLists)

NextPriority ==
    \/ \E ev \in EventActions : handler(ev)
    \/ \E t \in ResourceTypes : register_handler(t, "ECSServiceHandler")
    \/ handler_discover_priority
    \/ run_discover_priority
    \/ run_resource
    \/ run_return

\* one invocation over resources that carry priority tags
SpecPriority == Init /\ [][NextPriority]_vars

(***************************************************************************)
(* handlers/ecs_service.py: one ECSServiceHandler and the start() / stop()  *)
(* calls made on it, the stabilization wait poll by poll                   *)
(***************************************************************************)
\* the resource the handler is constructed for
HResource ==
    DiscoveredResource(1, [resource_type |-> "ecs-service", priority |-> DEFAULT_PRIORITY,
                           tags |-> <<>>])

\* the values of stable_timeout_seconds: none, below, at and above the polling interval
Timeouts == {0, polling_interval - 1, polling_interval, 2 * polling_interval + 1}

\* the config the handler is constructed with (resource_defaults of "ecs-service")
HConfigs ==
    [wait_for_stable : BOOLEAN, stable_timeout_seconds : Timeouts,
     default_desired_count : 1..MaxCount]
    \cup [wait_for_stable : BOOLEAN, stable_timeout_seconds : Timeouts]

\* the service is unknown to the Control Plane, or has a desired count, which may be
\* above every configured target
HServiceStates ==
    {<<>>} \cup {[i \in {1} |-> [desired |-> d, running |-> d]] : d \in 0..(MaxCount + 1)}

\* what the Control Plane does to the calls of one operation, the wait apart
HEnvs == {e \in Envs : e.client /\ e.wait}

HandlerOp(act, cpS, cfg, env) ==
    IF act = "start" THEN ECS_start(cpS, HResource, cfg, env)
    ELSE ECS_stop(cpS, HResource, cfg, env)

\* the operation got as far as _wait_for_stable
ReachesWait(o) == Len(o.calls) > 0 /\ o.calls[Len(o.calls)].op = "wait_services_stable"

\* a completed start() / stop() call
LogEntry(act, env, before, timeout, o, attempts, timed_out) ==
    [act |-> act, env |-> env, before |-> before, timeout |-> timeout,
     result |-> o.result, calls |-> o.calls, attempts |-> attempts, timed_out |-> timed_out,
     after |-> o.cp]

\* ECSServiceHandler.__init__
h_new(cfg, cpS) ==
    /\ h_pc = "none"
    /\ h_pc' = "ready" /\ h_cfg' = cfg /\ h_cp' = cpS
    /\ UNCHANGED <<h_before, h_act, h_env, h_attempts, h_log, h_ready>>
    /\ UNCHANGED <<orchVars, loVars, tdVars, sVars, fVars, bVars, dVars>>

\* start() / stop() up to the call of _wait_for_stable, or to its return when the
\* operation ends before the wait
h_call(act, env) ==
    /\ h_pc = "ready"
    /\ Len(h_log) < MaxOps
    /\ LET o == HandlerOp(act, h_cp, h_cfg, [env EXCEPT !.wait = FALSE])
           timeout == get_resource_defaults(h_cfg, HResource).stable_timeout_seconds
       IN  IF ReachesWait(o)
           THEN /\ h_pc' = "waiting" /\ h_act' = act /\ h_env' = env
                /\ h_before' = h_cp /\ h_cp' = o.cp /\ h_attempts' = 0
                /\ UNCHANGED h_log
           ELSE /\ h_log' = Append(h_log, LogEntry(act, env, h_cp, timeout, o, 0, FALSE))
                /\ h_cp' = o.cp
                /\ UNCHANGED <<h_pc, h_act, h_env, h_before, h_attempts>>
    /\ UNCHANGED <<h_cfg, h_ready>>
    /\ UNCHANGED <<orchVars, loVars, tdVars, sVars, fVars, bVars, dVars>>

\* _wait_for_stable: one attempt of the waiter configured with Delay = polling_interval
\* and MaxAttempts = max_attempts. The waiter returns when the service is stable and
\* raises when it has made MaxAttempts attempts; start() / stop() then returns.
h_poll(stable) ==
    /\ h_pc = "waiting"
    /\ LET timeout == get_resource_defaults(h_cfg, HResource).stable_timeout_seconds
           attempts == h_attempts + 1
           timed_out == ~stable /\ attempts >= max_attempts(timeout)
           o == HandlerOp(h_act, h_before, h_cfg, [h_env EXCEPT !.wait = stable])
       IN  IF stable \/ timed_out
           THEN /\ h_log' = Append(h_log, LogEntry(h_act, h_env, h_before, timeout, o,
                                                   attempts, timed_out))
                /\ h_cp' = o.cp
                /\ h_pc' = "ready" /\ h_act' = None /\ h_env' = <<>>
                /\ h_before' = <<>> /\ h_attempts' = 0
           ELSE /\ h_attempts' = attempts
                /\ UNCHANGED <<h_pc, h_act, h_env, h_before, h_cp, h_log>>
    /\ UNCHANGED <<h_cfg, h_ready>>
    /\ UNCHANGED <<orchVars, loVars, tdVars, sVars, fVars, bVars, dVars>>

\* is_ready(), called between the operations of the handler
h_is_ready(env) ==
    /\ h_pc = "ready"
    /\ LET o == is_ready(h_cp, HResource, env)
       IN  /\ h_ready' = <<[env |-> env, before |-> h_cp, returned |-> o.returned,
                            raised |-> o.raised, calls |-> o.calls, after |-> o.cp]>>
           /\ h_cp' = o.cp
    /\ UNCHANGED <<h_pc, h_cfg, h_before, h_act, h_env, h_attempts, h_log>>
    /\ UNCHANGED <<orchVars, loVars, tdVars, sVars, fVars, bVars, dVars>>

NextHandler ==
    \/ \E cfg \in HConfigs, cpS \in HServiceStates : h_new(cfg, cpS)
    \/ \E act \in {"start", "stop"}, env \in HEnvs : h_call(act, env)
    \/ \E stable \in BOOLEAN : h_poll(stable)
    \/ \E env \in HEnvs : h_is_ready(env)

\* one ECSServiceHandler and the calls made on it, nothing else changing its service
SpecHandler == Init /\ [][NextHandler]_vars

(***************************************************************************)
(* discovery/tag_discovery.py: TagDiscovery                                *)
(***************************************************************************)
PriorityTag == "lights-out:priority"

\* strings are sequences of characters where they are parsed
Digits == {"0", "1", "2", "3", "4", "5", "6", "7", "8", "9"}
DigitValue(c) ==
    CASE c = "0" -> 0 [] c = "1" -> 1 [] c = "2" -> 2 [] c = "3" -> 3 [] c = "4" -> 4
      [] c = "5" -> 5 [] c = "6" -> 6 [] c = "7" -> 7 [] c = "8" -> 8 [] c = "9" -> 9

RECURSIVE DigitsValue(_, _)
DigitsValue(s, acc) ==
    IF s = <<>> THEN acc ELSE DigitsValue(Tail(s), 10 * acc + DigitValue(Head(s)))

AllDigits(s) == s # <<>> /\ \A k \in DOMAIN s : s[k] \in Digits

\* Python's int(str): an optional sign followed by decimal digits; anything else is
\* a ValueError (surrounding blanks and digit-group underscores are not modelled)
int(s) ==
    IF AllDigits(s) THEN [ok |-> TRUE, value |-> DigitsValue(s, 0)]
    ELSE IF s # <<>> /\ Head(s) = "-" /\ AllDigits(Tail(s))
    THEN [ok |-> TRUE, value |-> 0 - DigitsValue(Tail(s), 0)]
    ELSE IF s # <<>> /\ Head(s) = "+" /\ AllDigits(Tail(s))
    THEN [ok |-> TRUE, value |-> DigitsValue(Tail(s), 0)]
    ELSE [ok |-> FALSE, value |-> 0]

\* TagDiscovery._extract_priority_from_tags
extract_priority_from_tags(tags) ==
    IF PriorityTag \notin DOMAIN tags THEN DEFAULT_PRIORITY
    ELSE IF int(tags[PriorityTag]).ok THEN int(tags[PriorityTag]).value
    ELSE DEFAULT_PRIORITY

\* the values the priority tag of a resource may have
PriorityTagValues == {<<"7">>, <<"-", "1">>, <<"h", "i">>, <<>>}

\* the tags of a raw mapping: none, the schedule tag, or a priority tag
RawTagMaps == TagMaps \cup {[k \in {PriorityTag} |-> v] : v \in PriorityTagValues}

\* one entry of ResourceTagMappingList; arns are numbered in the order in which the
\* Control Plane lists them
RawMapping(arn, tags) == [arn |-> arn, tags |-> tags]

\* TagDiscovery._process_resource_mapping (every ARN is the one of an ECS service)
process_resource_mapping(resource_map) ==
    DiscoveredResource(resource_map.arn,
                       [resource_type |-> "ecs-service",
                        priority |-> extract_priority_from_tags(resource_map.tags),
                        tags |-> resource_map.tags])

\* response.get('PaginationToken', '')
response_token(resp) == IF resp.has_token THEN resp.token ELSE <<>>

\* the responses get_resources may give to the n-th call after `listed` mappings: the
\* key PaginationToken missing, empty, or naming the next page
Responses(n, listed) ==
    {[mappings |-> [i \in 1..len |-> RawMapping(listed + i, f[i])],
      has_token |-> t.has_token, token |-> t.token] :
        len \in 0..MaxPageLen, f \in [1..MaxPageLen -> RawTagMaps],
        t \in {[has_token |-> FALSE, token |-> <<>>], [has_token |-> TRUE, token |-> <<>>]}
               \cup (IF n < MaxPages THEN {[has_token |-> TRUE, token |-> <<n>>]} ELSE {})}

\* discover returning after its first page
discover_page_once(out, resp) ==
    [out |-> out \o [i \in DOMAIN resp.mappings |->
                        process_resource_mapping(resp.mappings[i])],
     token |-> <<>>]

\* lines 59-66: one pass of discover's loop over a response
discover_page(out, resp) ==
    [out |-> out \o [i \in DOMAIN resp.mappings |->
                        process_resource_mapping(resp.mappings[i])],
     token |-> response_token(resp)]

\* a discover that returns what it has when a query fails
get_resources_raised_returning_partial(out) == [pc |-> "returned", out |-> out]

\* the exception of get_resources leaves discover: the call has no return value and
\* the list built so far is dropped
get_resources_raised(out) == [pc |-> "raised", out |-> <<>>]

\* lines 41-45: discover starts with no resources and no token
td_discover ==
    /\ td_pc = "idle"
    /\ td_pc' = "querying" /\ td_out' = <<>> /\ td_token' = <<>>
    /\ UNCHANGED <<td_sent, td_pages>>
    /\ UNCHANGED <<orchVars, loVars, hVars, sVars, fVars, bVars, dVars>>

\* lines 46-66: one get_resources call and the processing of its response
td_query ==
    /\ td_pc = "querying"
    /\ \E resp \in Responses(Len(td_pages) + 1, Len(td_out)) :
          LET o == discover_page(td_out, resp)
          IN  /\ td_sent' = Append(td_sent, td_token)
              /\ td_pages' = Append(td_pages, resp)
              /\ td_out' = o.out
              /\ td_token' = o.token
              /\ td_pc' = IF o.token = <<>> THEN "returned" ELSE "querying"
    /\ UNCHANGED <<orchVars, loVars, hVars, sVars, fVars, bVars, dVars>>

\* line 56: get_resources raises; nothing in discover catches it
td_query_raises ==
    /\ td_pc = "querying"
    /\ td_sent' = Append(td_sent, td_token)
    /\ td_pc' = get_resources_raised(td_out).pc
    /\ td_out' = get_resources_raised(td_out).out
    /\ UNCHANGED <<td_token, td_pages>>
    /\ UNCHANGED <<orchVars, loVars, hVars, sVars, fVars, bVars, dVars>>

NextDiscovery == td_discover \/ td_query \/ td_query_raises

\* one call of TagDiscovery.discover
SpecDiscovery == Init /\ [][NextDiscovery]_vars

(***************************************************************************)
(* handlers/factory.py: the calls made on the factory                      *)
(***************************************************************************)
\* the resource_type strings the factory is called with
FTypes == {"ecs-service", "ECS-Service", "nat-gateway"}
\* the handler classes registered
FClasses == {"ECSServiceHandler", "CustomHandler"}
\* the resources and configurations handed to get_handler
FResources == 1..2
FConfigs == {"config-a", "config-b"}

\* one call on the factory and what it returned
FCall(op, resource_type, handler_class, resource, cfg, returned) ==
    [op |-> op, resource_type |-> resource_type, handler_class |-> handler_class,
     resource |-> resource, config |-> cfg, returned |-> returned]

\* register_handler(resource_type, handler_class) is called
f_register ==
    /\ Len(f_log) < MaxCalls
    /\ \E t \in FTypes, H \in FClasses :
          /\ registry' = registry_set(registry, t, H)
          /\ f_log' = Append(f_log, FCall("register", t, H, 0, None, NoHandler))
    /\ UNCHANGED <<pc, action, config, cp, discovery, resources, idx, results, succeeded,
                   failed, summary, response, resolved, dispatched, cpCalls, events,
                   event, queried>>
    /\ UNCHANGED <<loVars, hVars, tdVars, sVars, bVars, dVars>>

\* get_handler(resource_type, resource, config) is called
f_get ==
    /\ Len(f_log) < MaxCalls
    /\ \E t \in FTypes, r \in FResources, c \in FConfigs :
          f_log' = Append(f_log, FCall("get", t, None, r, c,
                                       get_handler(registry, t, r, c)))
    /\ UNCHANGED <<orchVars, loVars, hVars, tdVars, sVars, bVars, dVars>>

NextFactory == f_register \/ f_get

\* the registrations and resolutions made in one process
SpecFactory == Init /\ [][NextFactory]_vars

(***************************************************************************)
(* handlers/ecs_service.py: how a handler addresses its service            *)
(***************************************************************************)
\* identifiers are strings over two names and the separator "/"
Names == {"prod", "web"}
Strings == UNION {[1..n -> Names \cup {"/"}] : n \in 1..MaxIdLen}

\* str.split('/')
RECURSIVE SplitFrom(_, _, _)
SplitFrom(s, cur, acc) ==
    IF s = <<>> THEN Append(acc, cur)
    ELSE IF Head(s) = "/" THEN SplitFrom(Tail(s), <<>>, Append(acc, cur))
    ELSE SplitFrom(Tail(s), Append(cur, Head(s)), acc)
split(s) == SplitFrom(s, <<>>, <<>>)

\* TagDiscovery._parse_resource_id_and_metadata for an ecs:service ARN, from the last
\* colon-separated part of the ARN
parse_resource_id_and_metadata(resource_id_part) ==
    LET resource_parts == split(resource_id_part)
        n == Len(resource_parts)
    IN  IF n >= 3
        THEN [resource_id |-> resource_parts[n - 1] \o <<"/">> \o resource_parts[n],
              metadata |-> [cluster_name |-> resource_parts[n - 1]]]
        ELSE IF n = 2
        THEN [resource_id |-> resource_parts[2],
              metadata |-> [cluster_name |-> <<"default">>]]
        ELSE [resource_id |-> resource_id_part,
              metadata |-> [cluster_name |-> <<"default">>]]

\* the resources a handler is constructed for by hand: any identifier, with or
\* without a cluster_name in the metadata
BResources ==
    {[resource_id |-> id, metadata |-> md] :
        id \in Strings, md \in {<<>>} \cup {[cluster_name |-> <<c>>] : c \in Names}}

\* ECSServiceHandler.__init__ lines 44-52: cluster_name and service_name
ECSServiceHandler(resource) ==
    [cluster_name |-> IF "cluster_name" \in DOMAIN resource.metadata
                      THEN resource.metadata.cluster_name ELSE <<"default">>,
     service_name |-> IF \E k \in DOMAIN resource.resource_id : resource.resource_id[k] = "/"
                      THEN split(resource.resource_id)[Len(split(resource.resource_id))]
                      ELSE resource.resource_id]

\* TagDiscovery produces the resource from the ARN of a service
b_parse ==
    /\ b_pc = "none"
    /\ \E s \in Strings :
          b_resource' = parse_resource_id_and_metadata(<<"service", "/">> \o s)
    /\ b_pc' = "resource"
    /\ UNCHANGED <<b_handler, b_call>>
    /\ UNCHANGED <<orchVars, loVars, hVars, tdVars, sVars, fVars, dVars>>

\* the resource is constructed by the caller
b_given ==
    /\ b_pc = "none"
    /\ b_resource' \in BResources
    /\ b_pc' = "resource"
    /\ UNCHANGED <<b_handler, b_call>>
    /\ UNCHANGED <<orchVars, loVars, hVars, tdVars, sVars, fVars, dVars>>

\* ECSServiceHandler(resource, config)
b_new ==
    /\ b_pc = "resource"
    /\ b_handler' = ECSServiceHandler(b_resource)
    /\ b_pc' = "bound"
    /\ UNCHANGED <<b_resource, b_call>>
    /\ UNCHANGED <<orchVars, loVars, hVars, tdVars, sVars, fVars, dVars>>

\* get_status lines 69-72: describe_services(cluster, services)
b_get_status ==
    /\ b_pc = "bound"
    /\ b_call' = [op |-> "describe_services", cluster |-> b_handler.cluster_name,
                  service |-> b_handler.service_name]
    /\ b_pc' = "called"
    /\ UNCHANGED <<b_resource, b_handler>>
    /\ UNCHANGED <<orchVars, loVars, hVars, tdVars, sVars, fVars, dVars>>

NextBinding == b_parse \/ b_given \/ b_new \/ b_get_status

\* one resource, the handler constructed for it and its status query
SpecBinding == Init /\ [][NextBinding]_vars

(***************************************************************************)
(* core/scheduler.py: Scheduler                                            *)
(***************************************************************************)
\* times of day, and the number of them in a day
Times == 0..MaxTick
TicksPerDay == MaxTick + 1
\* datetime.weekday(): 0 = Monday .. 6 = Sunday
Weekdays == 0..6

\* the work_days lists a Scheduler is constructed with
WorkDayLists == {{}, {0}, {5, 6}, Weekdays}

\* the arguments of Scheduler(...): whether ZoneInfo knows the timezone, work_days
\* (given or left at None) and the two times of day
SchedulerArgs ==
    [tz_valid : BOOLEAN, work_days_given : BOOLEAN, work_days : WorkDayLists,
     work_start_time : Times, work_end_time : Times]

\* a datetime: the weekday and time of day it shows and, when it is aware, by how
\* much the scheduler's zone is ahead of its own at that instant
Datetimes ==
    [weekday : Weekdays, time : Times, aware : {FALSE}, ahead : {0}]
    \cup [weekday : Weekdays, time : Times, aware : {TRUE}, ahead : {0 - 1, 0, 1}]

\* Scheduler.__init__ accepting equal start and end times
Scheduler_accepting_equal_times(args) ==
    IF ~args.tz_valid
    THEN [raised |-> "ZoneInfoNotFoundError", work_days |-> {},
          work_start_time |-> 0, work_end_time |-> 0]
    ELSE IF ~(args.work_start_time <= args.work_end_time)
    THEN [raised |-> "ValueError", work_days |-> {},
          work_start_time |-> 0, work_end_time |-> 0]
    ELSE [raised |-> "",
          work_days |-> IF args.work_days_given THEN args.work_days ELSE 0..4,
          work_start_time |-> args.work_start_time,
          work_end_time |-> args.work_end_time]

\* Scheduler.__init__: the object constructed, or the exception raised
Scheduler(args) ==
    IF ~args.tz_valid
    THEN [raised |-> "ZoneInfoNotFoundError", work_days |-> {},
          work_start_time |-> 0, work_end_time |-> 0]
    ELSE IF ~(args.work_start_time < args.work_end_time)
    THEN [raised |-> "ValueError", work_days |-> {},
          work_start_time |-> 0, work_end_time |-> 0]
    ELSE [raised |-> "",
          work_days |-> IF args.work_days_given THEN args.work_days ELSE 0..4,
          work_start_time |-> args.work_start_time,
          work_end_time |-> args.work_end_time]

\* Scheduler._normalize_to_timezone: a naive datetime is taken as it is, an aware
\* one is converted, which may move it to the day before or after
normalize_to_timezone(dt) ==
    IF ~dt.aware THEN [weekday |-> dt.weekday, time |-> dt.time]
    ELSE LET t == dt.time + dt.ahead
         IN  IF t < 0
             THEN [weekday |-> (dt.weekday + 6) % 7, time |-> t + TicksPerDay]
             ELSE IF t > MaxTick
             THEN [weekday |-> (dt.weekday + 1) % 7, time |-> t - TicksPerDay]
             ELSE [weekday |-> dt.weekday, time |-> t]

\* Scheduler.is_workday
is_workday(self, dt) == normalize_to_timezone(dt).weekday \in self.work_days

\* is_working_hours with the end time included
is_working_hours_closed(self, dt) ==
    LET current_time == normalize_to_timezone(dt).time
    IN  self.work_start_time <= current_time /\ current_time <= self.work_end_time

\* Scheduler.is_working_hours
is_working_hours(self, dt) ==
    LET current_time == normalize_to_timezone(dt).time
    IN  self.work_start_time <= current_time /\ current_time < self.work_end_time

\* is_during_work_time taking the weekday from the datetime as given
is_during_work_time_of_given_day(self, dt) ==
    LET dt_in_tz == normalize_to_timezone(dt)
    IN  /\ dt.weekday \in self.work_days
        /\ self.work_start_time <= dt_in_tz.time /\ dt_in_tz.time < self.work_end_time

\* Scheduler.is_during_work_time
is_during_work_time(self, dt) ==
    LET dt_in_tz == normalize_to_timezone(dt)
        is_valid_day == dt_in_tz.weekday \in self.work_days
        is_valid_hours ==
            self.work_start_time <= dt_in_tz.time /\ dt_in_tz.time < self.work_end_time
    IN  is_valid_day /\ is_valid_hours

\* Scheduler(...) is called
sch_new ==
    /\ s_pc = "none"
    /\ \E args \in SchedulerArgs :
          /\ s_args' = args
          /\ s_self' = Scheduler(args)
          /\ s_pc' = IF Scheduler(args).raised = "" THEN "ready" ELSE "raised"
    /\ UNCHANGED <<s_dt, s_out>>
    /\ UNCHANGED <<orchVars, loVars, hVars, tdVars, fVars, bVars, dVars>>

\* the three questions are asked of the Scheduler about one datetime
sch_eval ==
    /\ s_pc \in {"ready", "evaluated"}
    /\ \E dt \in Datetimes :
          /\ s_dt' = dt
          /\ s_out' = [is_workday |-> is_workday(s_self, dt),
                       is_working_hours |-> is_working_hours(s_self, dt),
                       is_during_work_time |-> is_during_work_time(s_self, dt)]
    /\ s_pc' = "evaluated"
    /\ UNCHANGED <<s_self, s_args>>
    /\ UNCHANGED <<orchVars, loVars, hVars, tdVars, fVars, bVars, dVars>>

NextScheduler == sch_new \/ sch_eval

\* one Scheduler and the evaluations made with it
SpecScheduler == Init /\ [][NextScheduler]_vars

(***************************************************************************)
(* lights_out/core/models.py and lights_out/app/orchestrator.py            *)
(***************************************************************************)
\* models.py: ResourceType
LOResourceTypes == {"ec2", "rds", "asg"}

\* models.py: Resource (the id stands for resource_id and resource_arn)
Resource(i, a) == [id |-> i, resource_type |-> a.resource_type, priority |-> a.priority]
LOResourceLists ==
    UNION { { [i \in 1..n |-> Resource(i, f[i])] :
                f \in [1..n -> [resource_type : LOResourceTypes, priority : Priorities]] }
            : n \in 0..MaxLen }

\* the lists in which a resource carries a resource_type outside ResourceType
\* (assigned after construction: the model does not validate assignments)
LOForcedLists ==
    UNION { { l \in { [i \in 1..n |-> Resource(i, f[i])] :
                        f \in [1..n -> [resource_type : LOResourceTypes \cup {"lambda"},
                                        priority : Priorities]] } :
                \E i \in 1..n : l[i].resource_type \notin LOResourceTypes }
            : n \in 1..MaxLen }

\* models.py line 64: ActionResult.resource_type is validated against ResourceType
ActionResultRejected(resource) == resource.resource_type \notin LOResourceTypes

\* models.py: ActionResult
ActionResult(resource, act, success, message, dry_run) ==
    [resource_id |-> resource.id, resource_type |-> resource.resource_type,
     action |-> act, success |-> success, message |-> message, dry_run |-> dry_run]

\* list.insert of x before the first element that x must precede
RECURSIVE InsertBy(_, _, _)
InsertBy(x, s, reverse) ==
    IF s = <<>> THEN <<x>>
    ELSE IF (IF reverse THEN x.priority > Head(s).priority
             ELSE x.priority < Head(s).priority)
    THEN <<x>> \o s
    ELSE <<Head(s)>> \o InsertBy(x, Tail(s), reverse)

RECURSIVE SortFrom(_, _, _)
SortFrom(list, acc, reverse) ==
    IF list = <<>> THEN acc
    ELSE SortFrom(Tail(list), InsertBy(Head(list), acc, reverse), reverse)

Reverse(s) == [i \in 1..Len(s) |-> s[Len(s) + 1 - i]]

\* descending order obtained by reversing the ascending sort
sorted_reversing(list, reverse) ==
    IF reverse THEN Reverse(SortFrom(list, <<>>, FALSE)) ELSE SortFrom(list, <<>>, FALSE)

\* Python's sorted(list, key=lambda r: r.priority, reverse=reverse): a stable sort,
\* also with reverse=True
sorted(list, reverse) == SortFrom(list, <<>>, reverse)

start_sorted_descending(list) == sorted(list, TRUE)

\* start_resources line 31
start_sorted(list) == sorted(list, FALSE)

stop_sorted_ascending(list) == sorted(list, FALSE)

\* stop_resources line 59
stop_sorted(list) == sorted(list, TRUE)

\* the boto3 call _start_<type> / _stop_<type> makes (for rds the ARN decides between
\* the instance and the cluster call)
LOCall(resource, act) ==
    [op |-> act, resource_type |-> resource.resource_type, id |-> resource.id]

\* what one Control Plane call may do: succeed, be rejected with a ClientError, or
\* fail before it is made (the client cannot be created)
LOOutcomes == {"ok", "client_error", "no_client"}

\* _start_resource / _stop_resource without the dry_run return of lines 89-97 / 140-148
act_on_resource_ignoring_dry_run(resource, act, dry_run, outcome) ==
    IF ActionResultRejected(resource)
    THEN [raised |-> TRUE, calls |-> <<>>,
          result |-> ActionResult(resource, act, FALSE, "Unsupported resource type", FALSE)]
    ELSE IF outcome = "ok"
    THEN [raised |-> FALSE, calls |-> <<LOCall(resource, act)>>,
          result |-> ActionResult(resource, act, TRUE, "initiated", FALSE)]
    ELSE IF outcome = "client_error"
    THEN [raised |-> FALSE, calls |-> <<LOCall(resource, act)>>,
          result |-> ActionResult(resource, act, FALSE, "AWS API error", FALSE)]
    ELSE [raised |-> FALSE, calls |-> <<>>,
          result |-> ActionResult(resource, act, FALSE, "client could not be created", FALSE)]

\* _start_resource and _stop_resource (with _start_ec2_instance ... _stop_asg). For a
\* resource_type outside ResourceType every ActionResult the function builds is
\* rejected by the model's validation: the one of the dry-run return (lines 90-97),
\* the one of the else branch (lines 107-113) and, the ValidationError of that one
\* being caught, the one of the except clause (lines 116-122), whose ValidationError
\* leaves the function.
act_on_resource(resource, act, dry_run, outcome) ==
    IF ActionResultRejected(resource)
    THEN [raised |-> TRUE, calls |-> <<>>,
          result |-> ActionResult(resource, act, FALSE, "Unsupported resource type", FALSE)]
    ELSE IF dry_run
    THEN [raised |-> FALSE, calls |-> <<>>,
          result |-> ActionResult(resource, act, TRUE, "DRY RUN", TRUE)]
    ELSE IF outcome = "ok"
    THEN [raised |-> FALSE, calls |-> <<LOCall(resource, act)>>,
          result |-> ActionResult(resource, act, TRUE, "initiated", FALSE)]
    ELSE IF outcome = "client_error"
    THEN [raised |-> FALSE, calls |-> <<LOCall(resource, act)>>,
          result |-> ActionResult(resource, act, FALSE, "AWS API error", FALSE)]
    ELSE [raised |-> FALSE, calls |-> <<>>,
          result |-> ActionResult(resource, act, FALSE, "client could not be created", FALSE)]

\* start_resources lines 28-33 / stop_resources lines 56-61: sort, then loop
lo_enter(act, list, dry_run) ==
    /\ lo_pc = "idle"
    /\ lo_op' = act /\ lo_input' = list /\ lo_dry' = dry_run
    /\ lo_sorted' = IF act = "start" THEN start_sorted(list) ELSE stop_sorted(list)
    /\ lo_i' = 1 /\ lo_results' = <<>> /\ lo_pc' = "loop"
    /\ UNCHANGED lo_calls

\* a call of start_resources / stop_resources with a list of the caller's choice
lo_call(act, list, dry_run) ==
    /\ lo_enter(act, list, dry_run)
    /\ UNCHANGED <<orchVars, hVars, tdVars, sVars, fVars, bVars, dVars>>

\* one iteration of the loop (lines 34-39 / 62-67)
lo_step ==
    /\ lo_pc = "loop"
    /\ lo_i <= Len(lo_sorted)
    /\ \E outcome \in (IF lo_dry THEN {"ok"} ELSE LOOutcomes) :
          LET o == act_on_resource(lo_sorted[lo_i], lo_op, lo_dry, outcome)
          IN  IF o.raised
              THEN /\ lo_pc' = "raised"
                   /\ UNCHANGED <<lo_results, lo_calls, lo_i>>
              ELSE /\ lo_results' = Append(lo_results, o.result)
                   /\ lo_calls' = lo_calls \o o.calls
                   /\ lo_i' = lo_i + 1
                   /\ UNCHANGED lo_pc
    /\ UNCHANGED <<lo_op, lo_dry, lo_input, lo_sorted>>
    /\ UNCHANGED <<orchVars, hVars, tdVars, sVars, fVars, bVars, dVars>>

\* lines 41-43 / 69-71: return results
lo_return ==
    /\ lo_pc = "loop"
    /\ lo_i > Len(lo_sorted)
    /\ lo_pc' = "returned"
    /\ UNCHANGED <<lo_op, lo_dry, lo_input, lo_sorted, lo_i, lo_results, lo_calls>>
    /\ UNCHANGED <<orchVars, hVars, tdVars, sVars, fVars, bVars, dVars>>

NextLO ==
    \/ /\ lo_pc = "idle"
       /\ \E act \in {"start", "stop"}, list \in LOResourceLists \cup LOForcedLists,
             dry_run \in BOOLEAN :
             lo_call(act, list, dry_run)
    \/ lo_step
    \/ lo_return

\* one call of lights_out start_resources or stop_resources
SpecLO == Init /\ [][NextLO]_vars

(***************************************************************************)
(* lights_out/discovery/resource_discovery.py and lights_out/handlers      *)
(***************************************************************************)
\* models.py: LightsOutConfig.resources, one ResourceConfig at most for a type, read
\* as what the list says of the type; the priorities are those of the default list
\* (lines 38-40)
ResourceConfigStates == {"enabled", "disabled", "absent"}
ConfigPriority == [t \in LOResourceTypes |->
                      IF t = "rds" THEN 1 ELSE IF t = "ec2" THEN 2 ELSE 3]
LightsOutConfigs == [resources : [LOResourceTypes -> ResourceConfigStates],
                     dry_run : BOOLEAN]

\* the ARNs the account holds, by what the code reads of them: the service (part 2
\* of the ARN) and the resource type the tagging API files the resource under
ArnKinds == { [service |-> "ec2", kind |-> "instance"],
              [service |-> "ec2", kind |-> "volume"],
              [service |-> "rds", kind |-> "db"],
              [service |-> "rds", kind |-> "cluster"],
              [service |-> "autoscaling", kind |-> "autoScalingGroup"] }

\* the resources of the account that carry the configured tag
TaggedInventories ==
    UNION { { [i \in 1..n |-> [id |-> i, arn |-> f[i]]] : f \in [1..n -> ArnKinds] }
            : n \in 0..MaxLen }

\* the filter strings appended for one resource type (lines 105-110)
TypeFilters(t) ==
    IF t = "ec2" THEN { [service |-> "ec2", kind |-> "instance"] }
    ELSE IF t = "rds" THEN { [service |-> "rds", kind |-> "db"],
                             [service |-> "rds", kind |-> "cluster"] }
    ELSE { [service |-> "autoscaling", kind |-> "autoScalingGroup"] }

\* the value `filters if filters else None` of line 111
FiltersOrNone(filters) == [none |-> filters = {}, types |-> filters]

\* _build_resource_type_filters without the `continue` of lines 102-103
build_resource_type_filters_ignoring_enabled(cfg) ==
    FiltersOrNone(UNION { TypeFilters(t) :
                            t \in { u \in LOResourceTypes : cfg.resources[u] # "absent" } })

\* _build_resource_type_filters
build_resource_type_filters(cfg) ==
    FiltersOrNone(UNION { TypeFilters(t) :
                            t \in { u \in LOResourceTypes : cfg.resources[u] = "enabled" } })

\* what the client may answer: the pages, a ClientError of the service
TaggingOutcomes == {"ok", "client_error"}

\* paginator.paginate(TagFilters=..., ResourceTypeFilters=filters), all pages taken
\* together: the tagged resources of the types named. The client validates its
\* parameters against the operation's shape before it sends anything, and
\* ResourceTypeFilters is a list there: for None it raises ParamValidationError.
get_resources(tagged, filters, outcome) ==
    IF filters.none THEN [raised |-> TRUE, mappings |-> <<>>]
    ELSE IF outcome = "client_error" THEN [raised |-> TRUE, mappings |-> <<>>]
    ELSE [raised |-> FALSE,
          mappings |-> SelectSeq(tagged, LAMBDA m : m.arn \in filters.types)]

\* _extract_resource_type
extract_resource_type(arn) ==
    IF arn.service = "ec2" /\ arn.kind = "instance" THEN "ec2"
    ELSE IF arn.service = "rds" THEN "rds"
    ELSE IF arn.service = "autoscaling" THEN "asg"
    ELSE None

\* priority_map.get(resource_type, 999) with the priority_map of line 57
priority_of(cfg, t) ==
    IF cfg.resources[t] = "enabled" THEN ConfigPriority[t] ELSE 999

\* the loop of lines 59-77 over the mappings returned
RECURSIVE to_resources(_, _)
to_resources(cfg, mappings) ==
    IF mappings = <<>> THEN <<>>
    ELSE LET m == Head(mappings)
             t == extract_resource_type(m.arn)
         IN  (IF t # None
              THEN << [id |-> m.id, resource_type |-> t,
                       priority |-> priority_of(cfg, t)] >>
              ELSE <<>>) \o to_resources(cfg, Tail(mappings))

\* discover_resources: the list returned, or DiscoveryError for whatever was raised
\* inside the try block
discover_resources(cfg, tagged, outcome) ==
    LET filters == build_resource_type_filters(cfg)
        answer  == get_resources(tagged, filters, outcome)
    IN  [raised |-> answer.raised, filters |-> filters,
         resources |-> IF answer.raised THEN <<>> ELSE to_resources(cfg, answer.mappings)]

\* start_handler.handler / stop_handler.handler up to the call of start_resources /
\* stop_resources: the DiscoveryError is answered with status 500 and an empty list
\* with "No resources found"; otherwise the list discovered is handed on
lo_handler(act, cfg, tagged, outcome) ==
    /\ d_pc = "idle"
    /\ LET d == discover_resources(cfg, tagged, outcome)
       IN  /\ d_config' = cfg /\ d_tagged' = tagged
           /\ d_filters' = d.filters /\ d_out' = d.resources
           /\ IF d.raised
              THEN d_pc' = "error" /\ UNCHANGED loVars
              ELSE IF d.resources = <<>>
              THEN d_pc' = "no_resources" /\ UNCHANGED loVars
              ELSE d_pc' = "acting" /\ lo_enter(act, d.resources, cfg.dry_run)
    /\ UNCHANGED <<orchVars, hVars, tdVars, sVars, fVars, bVars>>

NextLOHandler ==
    \/ /\ d_pc = "idle"
       /\ \E act \in {"start", "stop"}, cfg \in LightsOutConfigs,
             tagged \in TaggedInventories, outcome \in TaggingOutcomes :
             lo_handler(act, cfg, tagged, outcome)
    \/ lo_step
    \/ lo_return

\* one invocation of the start or of the stop Lambda handler
SpecLOHandler == Init /\ [][NextLOHandler]_vars

(***************************************************************************)
(* Properties                                                              *)
(***************************************************************************)
PriorityOf(id) == resources[id].priority
Scheduled(resource) == ~Falsy(get_schedule(resource, config[1].schedule_tag))
Registered(resource) == resource.resource_type \in DOMAIN registry
SkippedUpTo(n) == Cardinality({i \in 1..n : ~Scheduled(resources[i])})
RunAction == action \in {"start", "stop", "status"}
AtResource == pc = "loop" /\ idx <= Len(resources)

\* C1: Orchestrator.run dispatches the discovered resources to their handlers in
\* priority order, whatever order Discovery returned them in: descending priority
\* for "stop", ascending priority for "start".
C1_DispatchedInPriorityOrder ==
    \A i, j \in DOMAIN dispatched :
        i < j =>
            /\ action = "stop" => PriorityOf(dispatched[i]) >= PriorityOf(dispatched[j])
            /\ action = "start" => PriorityOf(dispatched[i]) <= PriorityOf(dispatched[j])

LOPriority(id) == lo_input[id].priority

\* C2: stop_resources processes the resources in non-increasing priority order
\* (results[i] is the outcome of the i-th resource processed, and the Control
\* Plane calls are made in the same order).
C2_StopNonIncreasing ==
    lo_op = "stop" =>
        /\ \A i \in DOMAIN lo_results : lo_results[i].resource_id = lo_sorted[i].id
        /\ \A i, j \in DOMAIN lo_results :
              i < j => LOPriority(lo_results[i].resource_id)
                          >= LOPriority(lo_results[j].resource_id)
        /\ \A i, j \in DOMAIN lo_calls :
              i < j => LOPriority(lo_calls[i].id) >= LOPriority(lo_calls[j].id)

\* stop_resources returned after two real calls on a list given in ascending order
C2_Witness ==
    /\ lo_pc = "returned" /\ lo_op = "stop" /\ ~lo_dry
    /\ Len(lo_input) = 2 /\ lo_input[1].priority < lo_input[2].priority
    /\ Len(lo_results) = 2 /\ Len(lo_calls) = 2

\* C3: start_resources processes the resources in non-decreasing priority order
\* (results[i] is the outcome of the i-th resource processed, and the Control
\* Plane calls are made in the same order).
C3_StartNonDecreasing ==
    lo_op = "start" =>
        /\ \A i \in DOMAIN lo_results : lo_results[i].resource_id = lo_sorted[i].id
        /\ \A i, j \in DOMAIN lo_results :
              i < j => LOPriority(lo_results[i].resource_id)
                          <= LOPriority(lo_results[j].resource_id)
        /\ \A i, j \in DOMAIN lo_calls :
              i < j => LOPriority(lo_calls[i].id) <= LOPriority(lo_calls[j].id)

\* start_resources returned after two real calls on a list given in descending order
C3_Witness ==
    /\ lo_pc = "returned" /\ lo_op = "start" /\ ~lo_dry
    /\ Len(lo_input) = 2 /\ lo_input[1].priority > lo_input[2].priority
    /\ Len(lo_results) = 2 /\ Len(lo_calls) = 2

\* C4: in start_resources and in stop_resources, resources of equal priority are
\* processed in the order in which they appear in the input list (ids are input
\* positions).
C4_TiesKeepInputOrder ==
    \A i, j \in DOMAIN lo_results :
        (i < j /\ LOPriority(lo_results[i].resource_id) = LOPriority(lo_results[j].resource_id))
            => lo_results[i].resource_id < lo_results[j].resource_id

\* stop_resources returned for a list holding two resources of equal priority
C4_Witness ==
    /\ lo_pc = "returned" /\ lo_op = "stop"
    /\ Len(lo_results) = Len(lo_input) /\ Len(lo_input) >= 2
    /\ \E i, j \in DOMAIN lo_input : i < j /\ lo_input[i].priority = lo_input[j].priority

\* C5: no per-resource failure ends the batch: once Discovery has returned, run
\* leaves its loop only after the last resource, and it returns a summary (and
\* the entry point the success outcome) instead of raising.
C5_FailureDoesNotEndBatch ==
    (RunAction /\ discovery = "returned" /\ pc # "loop") =>
        /\ pc = "returned"
        /\ idx = Len(resources) + 1
        /\ summary # <<>>
        /\ summary[1].total = Len(resources)
        /\ response[1].statusCode = 200

\* a run returned in which the first resource failed with an exception and the
\* second one was dispatched and succeeded
C5_Witness ==
    /\ pc = "returned" /\ summary # <<>> /\ Len(resources) = 2
    /\ Len(results) = 2
    /\ ~results[1].success /\ "error" \in DOMAIN results[1] /\ results[1].resource_id = 1
    /\ results[2].success /\ results[2].resource_id = 2
    /\ dispatched = <<2>>

\* C6: at the end of run, total is the number of discovered resources and
\* succeeded + failed + skipped = total, skipped being the number of resources
\* without a schedule; during the loop every resource visited so far is counted
\* in exactly one of the three.
C6_CountsPartitionTotal ==
    /\ (RunAction /\ pc = "loop") => succeeded + failed + SkippedUpTo(idx - 1) = idx - 1
    /\ summary # <<>> =>
          /\ summary[1].total = Len(resources)
          /\ summary[1].succeeded + summary[1].failed + SkippedUpTo(Len(resources))
                = summary[1].total

\* a run returned over one skipped, and one failed resource
C6_Witness ==
    /\ summary # <<>> /\ summary[1].total = 2
    /\ SkippedUpTo(2) = 1 /\ summary[1].failed = 1 /\ summary[1].succeeded = 0

\* C7: a scheduled resource without a handler gets a failed outcome in results, so
\* that the number of entries in results equals succeeded + failed.
C7_ResultsMatchCounts ==
    summary # <<>> =>
        Len(summary[1].results) = summary[1].succeeded + summary[1].failed

\* C8 as stated: every discovered resource whose type has no registry entry is
\* counted as failed when run reaches it, whatever tags it carries.
C8_UnregisteredFailsWhateverTags ==
    [][(AtResource /\ ~Registered(resources[idx])) => failed' = failed + 1]_vars

\* C8 as amended: every discovered resource that has a schedule and whose type
\* has no registry entry is counted as failed when run reaches it (failed grows by
\* one, succeeded does not change, no handler operation is invoked).
C8_ScheduledUnregisteredFails ==
    [][(AtResource /\ Scheduled(resources[idx]) /\ ~Registered(resources[idx]))
          => /\ failed' = failed + 1
             /\ succeeded' = succeeded
             /\ dispatched' = dispatched
             /\ pc' = "loop" /\ idx' = idx + 1]_vars

\* a run returned over one scheduled resource of an unregistered type
C8_Witness ==
    /\ pc = "returned" /\ summary # <<>> /\ Len(resources) = 1
    /\ Scheduled(resources[1]) /\ ~Registered(resources[1])
    /\ summary[1].failed = 1 /\ resolved = <<1>> /\ dispatched = <<>>

\* C9: a resource without a schedule is skipped: no handler is resolved or invoked
\* for it, no Control Plane call is made, succeeded and failed do not change and
\* results gets no entry.
C9_UnscheduledSkipped ==
    [][(AtResource /\ ~Scheduled(resources[idx]))
          => /\ UNCHANGED <<resolved, dispatched, cpCalls, cp, succeeded, failed, results>>
             /\ pc' = "loop" /\ idx' = idx + 1]_vars

\* a run returned that skipped its first resource and dispatched its second
C9_Witness ==
    /\ pc = "returned" /\ summary # <<>> /\ Len(resources) = 2
    /\ ~Scheduled(resources[1]) /\ Scheduled(resources[2])
    /\ resolved = <<2>> /\ dispatched = <<2>>
    /\ \A k \in DOMAIN cpCalls : cpCalls[k].id = 2

\* C10: when Discovery fails the run is aborted: no handler is resolved or invoked,
\* no Control Plane call is made, no summary is produced, and the entry point
\* returns statusCode 500 with an error field.
C10_DiscoveryFailureAborts ==
    discovery = "raised" =>
        /\ pc = "returned"
        /\ resolved = <<>> /\ dispatched = <<>> /\ cpCalls = <<>>
        /\ summary = <<>>
        /\ response # <<>>
        /\ response[1].statusCode = 500
        /\ "error" \in DOMAIN response[1].body

\* a "stop" invocation whose discovery raised
C10_Witness ==
    /\ discovery = "raised" /\ action = "stop" /\ response # <<>>

(***************************************************************************)
(* Properties of ECSServiceHandler (SpecHandler)                           *)
(***************************************************************************)
Empty(e) == e = None \/ e = ""
IsHandlerResult(r) ==
    DOMAIN r = {"success", "action", "resource_type", "resource_id", "message",
                "previous_state", "error"}
HasMutation(e) == \E k \in DOMAIN e.calls : IsMutating(e.calls[k])
StatusReadFailed(e) == ~get_status(e.before, HResource, e.env).ok
UpdateFailed(e) == HasMutation(e) /\ ~e.env.update
StepFailed(e) == StatusReadFailed(e) \/ UpdateFailed(e) \/ e.timed_out
FailureText(e) ==
    IF StatusReadFailed(e) THEN get_status(e.before, HResource, e.env).error
    ELSE IF UpdateFailed(e) THEN "update_service failed"
    ELSE "Waiter ServicesStable failed"

\* C11: every completed start() / stop() call returned a HandlerResult, and when
\* one of its steps failed (the status read, the update call or the stabilization
\* wait) the result has success = false and carries the text of that failure.
C11_FailuresBecomeResults ==
    \A k \in DOMAIN h_log :
        /\ IsHandlerResult(h_log[k].result)
        /\ StepFailed(h_log[k]) =>
              /\ ~h_log[k].result.success
              /\ h_log[k].result.error = FailureText(h_log[k])

\* a call whose update call was rejected, followed by a call whose wait timed out
C11_Witness ==
    /\ Len(h_log) = 2
    /\ UpdateFailed(h_log[1]) /\ ~h_log[1].result.success
    /\ h_log[2].timed_out /\ ~h_log[2].result.success

\* C12: every HandlerResult returned by start() or stop() has either success = true
\* and an empty error, or success = false and a non-empty error.
C12_ErrorIffFailed ==
    \A k \in DOMAIN h_log :
        \/ h_log[k].result.success /\ Empty(h_log[k].result.error)
        \/ ~h_log[k].result.success /\ ~Empty(h_log[k].result.error)

\* a successful call followed by a call whose status read failed
C12_Witness ==
    /\ Len(h_log) = 2
    /\ h_log[1].result.success /\ HasMutation(h_log[1])
    /\ StatusReadFailed(h_log[2]) /\ ~h_log[2].result.success

\* C13: of two stop() calls in a row on the same service, both succeed when no
\* Control Plane call fails, and after a first call that succeeded the second one
\* (its status read answering) succeeds without a mutating call or a wait, says
\* that the service is already stopped and has previous_state.is_stopped true.
C13_StopIdempotent ==
    \A k \in DOMAIN h_log :
        (k > 1 /\ h_log[k - 1].act = "stop" /\ h_log[k].act = "stop") =>
            /\ (~StepFailed(h_log[k - 1]) /\ ~StepFailed(h_log[k])) =>
                  h_log[k - 1].result.success /\ h_log[k].result.success
            /\ (h_log[k - 1].result.success /\ ~StatusReadFailed(h_log[k])) =>
                  /\ h_log[k].result.success
                  /\ ~HasMutation(h_log[k])
                  /\ h_log[k].attempts = 0
                  /\ h_log[k].result.message = "Service already stopped"
                  /\ h_log[k].result.previous_state # <<>>
                  /\ h_log[k].result.previous_state[1].is_stopped

\* a stop() that scaled a running service to 0, followed by a second stop()
C13_Witness ==
    /\ Len(h_log) = 2
    /\ h_log[1].act = "stop" /\ h_log[1].result.success /\ HasMutation(h_log[1])
    /\ h_log[2].act = "stop" /\ h_log[2].result.success
    /\ h_log[2].result.message = "Service already stopped"

\* the target of start(): default_desired_count, 1 when it is not configured
TargetCount ==
    IF "default_desired_count" \in DOMAIN h_cfg THEN h_cfg.default_desired_count ELSE 1

\* C14: a start() that finds the desired count equal to the configured target
\* returns success with the "already at desired count" message and the status it
\* read as previous_state, and makes no Control Plane call after the status read
\* (no update call, no stabilization wait).
C14_StartAtTargetIsNoOp ==
    \A k \in DOMAIN h_log :
        (/\ h_log[k].act = "start"
         /\ ~StatusReadFailed(h_log[k])
         /\ h_log[k].before[1].desired = TargetCount) =>
            /\ h_log[k].result.success
            /\ h_log[k].result.message = "Service already at desired count"
            /\ h_log[k].result.previous_state
                  = <<get_status(h_log[k].before, HResource, h_log[k].env).status>>
            /\ h_log[k].calls = <<DescribeCall(1)>>
            /\ h_log[k].attempts = 0

\* a start() on a service already at the target, with wait_for_stable configured
C14_Witness ==
    /\ Len(h_log) = 1 /\ h_log[1].act = "start" /\ h_cfg.wait_for_stable
    /\ ~StatusReadFailed(h_log[1])
    /\ h_log[1].before[1].desired = TargetCount
    /\ h_log[1].result.success

\* max(1, timeout / 15), integer division
AttemptCeiling(timeout) == IF timeout < 30 THEN 1 ELSE timeout \div 15

\* C15: the stabilization wait makes at most max(1, timeout / 15) attempts for every
\* timeout (0 and values below 15 included): while it waits it has made fewer, and
\* a wait that made that many without the service stabilizing ends in a failed
\* HandlerResult carrying the waiter's error.
C15_WaitIsBounded ==
    /\ h_pc = "waiting" =>
          h_attempts < AttemptCeiling(h_cfg.stable_timeout_seconds)
    /\ \A k \in DOMAIN h_log :
          /\ h_log[k].attempts <= AttemptCeiling(h_log[k].timeout)
          /\ h_log[k].timed_out =>
                /\ h_log[k].attempts = AttemptCeiling(h_log[k].timeout)
                /\ ~h_log[k].result.success
                /\ h_log[k].result.error = "Waiter ServicesStable failed"

\* a wait configured with timeout 0 that made its one attempt and timed out
C15_Witness ==
    /\ Len(h_log) >= 1
    /\ h_log[1].timeout = 0 /\ h_log[1].timed_out /\ h_log[1].attempts = 1
    /\ ~h_log[1].result.success

(***************************************************************************)
(* Properties of one invocation (Spec), continued                          *)
(***************************************************************************)
\* handler operations invoked and not yet returned after the first n events
InProgress(n) ==
    Cardinality({k \in 1..n : events[k].kind = "invoke"})
        - Cardinality({k \in 1..n : events[k].kind = "return"})
IsControlPlaneEvent(ev) == ev.kind \notin {"resolve", "invoke", "return"}

MutatingCalls(id) == {k \in DOMAIN cpCalls : cpCalls[k].id = id /\ IsMutating(cpCalls[k])}

\* C17: in one run no resource is dispatched to a handler operation twice, and the
\* operation of a resource makes at most one mutating Control Plane call, also when
\* it fails.
C17_SinglePassNoRetry ==
    /\ \A i, j \in DOMAIN dispatched : i # j => dispatched[i] # dispatched[j]
    /\ \A id \in DOMAIN resources : Cardinality(MutatingCalls(id)) <= 1

\* a run returned whose first resource's update call was rejected
C17_Witness ==
    /\ pc = "returned" /\ summary # <<>> /\ Len(results) >= 1
    /\ ~results[1].success /\ results[1].resource_id = 1
    /\ results[1].error = "update_service failed"
    /\ Cardinality(MutatingCalls(1)) = 1

\* C18: an action outside VALID_ACTIONS is answered with statusCode 400 and an
\* error naming the action, without loading the configuration, running Discovery
\* or touching a resource.
C18_InvalidActionIs400 ==
    (pc # "idle" /\ action \notin VALID_ACTIONS) =>
        /\ pc = "returned"
        /\ response[1].statusCode = 400
        /\ response[1].body.error = <<"Invalid action", action>>
        /\ config = <<>> /\ discovery = "pending"
        /\ resolved = <<>> /\ dispatched = <<>> /\ cpCalls = <<>>

\* C19: the "discover" action never enters run: no summary, no handler resolved or
\* invoked, no Control Plane call; its response has one entry (type, identifier,
\* unique id, priority, group) per discovered resource, in discovery order, and
\* discovered_count is their number.
C19_DiscoverOnlyLists ==
    action = "discover" =>
        /\ pc \notin {"run", "loop"}
        /\ summary = <<>> /\ resolved = <<>> /\ dispatched = <<>>
        /\ cpCalls = <<>> /\ events = <<>>
        /\ (response # <<>> /\ response[1].statusCode = 200) =>
              /\ response[1].body.discovered_count = Len(resources)
              /\ Len(response[1].body.resources) = Len(resources)
              /\ \A i \in DOMAIN resources :
                    response[1].body.resources[i]
                        = [resource_type |-> resources[i].resource_type,
                           resource_id |-> resources[i].id, arn |-> resources[i].id,
                           priority |-> resources[i].priority,
                           group |-> resources[i].group]

\* a "discover" invocation that returned two resources
C19_Witness ==
    /\ action = "discover" /\ pc = "returned" /\ response # <<>>
    /\ response[1].statusCode = 200 /\ response[1].body.discovered_count = 2

\* C20: every response the entry point returns has action, timestamp and
\* request_id in its body.
C20_ResponseCarriesMetadata ==
    response # <<>> =>
        {"action", "timestamp", "request_id"} \subseteq DOMAIN response[1].body

\* C21: a start, stop or status invocation whose configuration load and Discovery
\* succeeded returns statusCode 200 with total, succeeded and failed in its body,
\* however many of its resources failed.
C21_PartialFailureIs200 ==
    (RunAction /\ discovery = "returned" /\ pc = "returned") =>
        /\ response[1].statusCode = 200
        /\ {"total", "succeeded", "failed"} \subseteq DOMAIN response[1].body
        /\ response[1].body.total = Len(resources)
        /\ response[1].body.succeeded = succeeded
        /\ response[1].body.failed = failed

\* a run returned in which both resources failed
C21_Witness ==
    /\ RunAction /\ pc = "returned" /\ discovery = "returned" /\ Len(resources) = 2
    /\ response[1].statusCode = 200
    /\ response[1].body.failed = 2 /\ response[1].body.succeeded = 0

\* C22: when discovery.method is missing or is not "tags", discover_resources
\* returns the empty list without raising and without constructing or querying a
\* discovery strategy, and a run over it reports total = succeeded = failed = 0.
C22_UnknownMethodDiscoversNothing ==
    (config # <<>> /\ config[1].method # "tags" /\ discovery # "pending") =>
        /\ discovery = "returned"
        /\ ~queried
        /\ resources = <<>>
        /\ (pc = "returned" /\ RunAction) =>
              /\ summary # <<>>
              /\ summary[1].total = 0 /\ summary[1].succeeded = 0 /\ summary[1].failed = 0
              /\ summary[1].results = <<>>

\* a "stop" run returned under discovery.method = "unknown"
C22_Witness ==
    /\ config # <<>> /\ config[1].method = "unknown" /\ action = "stop"
    /\ pc = "returned" /\ summary # <<>> /\ summary[1].total = 0

\* C29: an event without an action is handled as action "status": the action is
\* "status", the invocation goes through Orchestrator.run, no mutating Control
\* Plane call is made, and the response reports action "status".
C29_NoActionMeansStatus ==
    event = Absent =>
        /\ action = "status"
        /\ pc # "discover"
        /\ \A k \in DOMAIN cpCalls : ~IsMutating(cpCalls[k])
        /\ (response # <<>> /\ response[1].statusCode = 200) =>
              /\ summary # <<>>
              /\ response[1].body.action = "status"
              /\ \A k \in DOMAIN results :
                    results[k].success => "status" \in DOMAIN results[k]

\* an invocation without an action returned after reading the status of a service
C29_Witness ==
    /\ event = Absent /\ pc = "returned" /\ response # <<>>
    /\ response[1].statusCode = 200
    /\ dispatched = <<1>> /\ Len(results) = 1 /\ results[1].success
    /\ cpCalls = <<DescribeCall(1)>>

TokenOf(page) == IF page.has_token THEN page.token ELSE <<>>

RECURSIVE AllMappings(_)
AllMappings(pages) ==
    IF pages = <<>> THEN <<>> ELSE Head(pages).mappings \o AllMappings(Tail(pages))

\* C23: TagDiscovery.discover passes no token to its first query and the token of
\* the previous response to every later one, keeps querying while the response
\* carries a non-empty token, has returned exactly when the last response carried no
\* token or an empty one, and its resources are the raw mappings of all the pages
\* received, one each and in page order, whatever their tags.
C23_DiscoverConsumesEveryPage ==
    td_pc # "raised" =>
        /\ Len(td_sent) = Len(td_pages)
        /\ \A k \in DOMAIN td_sent :
              td_sent[k] = IF k = 1 THEN <<>> ELSE TokenOf(td_pages[k - 1])
        /\ \A k \in 1..(Len(td_pages) - 1) : TokenOf(td_pages[k]) # <<>>
        /\ td_pc = "returned" <=>
              (td_pages # <<>> /\ TokenOf(td_pages[Len(td_pages)]) = <<>>)
        /\ td_pc = "idle" => td_pages = <<>>
        /\ Len(td_out) = Len(AllMappings(td_pages))
        /\ \A j \in DOMAIN td_out :
              /\ td_out[j].id = AllMappings(td_pages)[j].arn
              /\ td_out[j].tags = AllMappings(td_pages)[j].tags

\* discover returned after two pages of one mapping each, the second mapping
\* without a schedule tag
C23_Witness ==
    /\ td_pc = "returned" /\ Len(td_pages) = 2 /\ Len(td_out) = 2
    /\ td_sent = << <<>>, <<1>> >>
    /\ ScheduleTag \in DOMAIN td_out[1].tags
    /\ ScheduleTag \notin DOMAIN td_out[2].tags

\* C24: every resource TagDiscovery produces has a non-negative priority: the value
\* of its priority tag when that is a valid non-negative integer, DEFAULT_PRIORITY
\* otherwise.
C24_PriorityNonNegative ==
    \A j \in DOMAIN td_out :
        /\ td_out[j].priority >= 0
        /\ td_out[j].priority =
              IF PriorityTag \in DOMAIN td_out[j].tags
                 /\ AllDigits(td_out[j].tags[PriorityTag])
              THEN DigitsValue(td_out[j].tags[PriorityTag], 0)
              ELSE DEFAULT_PRIORITY

LocalOf(dt) == normalize_to_timezone(dt)

\* C25: Scheduler.is_working_hours is true exactly when the time of day of the
\* datetime, taken in the scheduler's zone, is at or after work_start_time and
\* strictly before work_end_time.
C25_HoursHalfOpen ==
    s_pc = "evaluated" =>
        (s_out.is_working_hours <=>
            (s_args.work_start_time <= LocalOf(s_dt).time
             /\ LocalOf(s_dt).time < s_args.work_end_time))

\* a naive datetime exactly at work_end_time was found outside working hours
C25_Witness ==
    /\ s_pc = "evaluated" /\ ~s_dt.aware
    /\ s_dt.time = s_args.work_end_time
    /\ ~s_out.is_working_hours

\* C26: is_during_work_time(t) equals is_workday(t) and is_working_hours(t), and
\* all three are about the weekday and the time of day of one normalization of t.
C26_DuringIsConjunction ==
    s_pc = "evaluated" =>
        /\ s_out.is_during_work_time <=> (s_out.is_workday /\ s_out.is_working_hours)
        /\ s_out.is_workday <=> LocalOf(s_dt).weekday \in s_self.work_days
        /\ s_out.is_during_work_time <=>
              /\ LocalOf(s_dt).weekday \in s_self.work_days
              /\ s_self.work_start_time <= LocalOf(s_dt).time
              /\ LocalOf(s_dt).time < s_self.work_end_time

\* an aware datetime of a day off that is a work day once converted, and during
\* work time there
C26_Witness ==
    /\ s_pc = "evaluated" /\ s_dt.aware
    /\ s_dt.weekday \notin s_self.work_days
    /\ LocalOf(s_dt).weekday # s_dt.weekday
    /\ s_out.is_during_work_time

\* C27: constructing a Scheduler whose work_start_time is not strictly before its
\* work_end_time raises, so a Scheduler that exists has start < end.
C27_StartBeforeEnd ==
    /\ s_pc \in {"ready", "evaluated"} =>
          /\ s_self.raised = ""
          /\ s_self.work_start_time < s_self.work_end_time
          /\ s_self.work_start_time = s_args.work_start_time
          /\ s_self.work_end_time = s_args.work_end_time
    /\ (s_pc # "none" /\ ~(s_args.work_start_time < s_args.work_end_time)) =>
          s_pc = "raised"

\* construction raised ValueError for equal times in a known timezone
C27_Witness ==
    /\ s_pc = "raised" /\ s_args.tz_valid
    /\ s_args.work_start_time = s_args.work_end_time
    /\ s_self.raised = "ValueError"

RegistrationsBefore(k, t) ==
    {j \in 1..(k - 1) : f_log[j].op = "register" /\ f_log[j].resource_type = t}

Latest(S) == CHOOSE j \in S : \A i \in S : i <= j

\* C30: get_handler returns an instance, over the resource and configuration it was
\* given, of the class last registered for exactly its resource_type string: the
\* class of the latest earlier register_handler for that string, else the class
\* HANDLER_REGISTRY starts with for it, and None for a string never registered.
C30_ExactMatchLatestWins ==
    \A k \in DOMAIN f_log :
        f_log[k].op = "get" =>
            LET t == f_log[k].resource_type
                regs == RegistrationsBefore(k, t)
                expected ==
                    IF regs # {} THEN f_log[Latest(regs)].handler_class
                    ELSE IF t \in DOMAIN HANDLER_REGISTRY THEN HANDLER_REGISTRY[t]
                    ELSE None
            IN  IF expected = None THEN f_log[k].returned = NoHandler
                ELSE f_log[k].returned = [class |-> expected,
                                          resource |-> f_log[k].resource,
                                          config |-> f_log[k].config]

\* after "ecs-service" was registered anew, get_handler returned an instance of the
\* new class for it and None for the same name in another case
C30_Witness ==
    /\ Len(f_log) = 3
    /\ f_log[1].op = "register" /\ f_log[1].resource_type = "ecs-service"
    /\ f_log[1].handler_class = "CustomHandler"
    /\ f_log[2].op = "get" /\ f_log[2].resource_type = "ecs-service"
    /\ f_log[2].returned.class = "CustomHandler"
    /\ f_log[3].op = "get" /\ f_log[3].resource_type = "ECS-Service"
    /\ f_log[3].returned = NoHandler

IsSnapshotOf(st, id) ==
    /\ id \in DOMAIN cp
    /\ st.desired_count = cp[id].desired /\ st.running_count = cp[id].running
    /\ st.is_stopped <=> cp[id].desired = 0

\* C31: a run of "status" makes no mutating Control Plane call; each outcome it
\* appends is either success = TRUE with the status snapshot of its resource, which
\* is still the resource's state, or success = FALSE with the error text, and the
\* failed outcomes are counted as failed.
C31_StatusOnlyReads ==
    (action = "status" /\ discovery = "returned") =>
        /\ \A k \in DOMAIN cpCalls : ~IsMutating(cpCalls[k])
        /\ \A k \in DOMAIN results :
              IF results[k].success
              THEN /\ "status" \in DOMAIN results[k]
                   /\ IsSnapshotOf(results[k].status, results[k].resource_id)
              ELSE /\ "error" \in DOMAIN results[k]
                   /\ ~Falsy(results[k].error)
        /\ succeeded = Cardinality({k \in DOMAIN results : results[k].success})
        /\ failed >= Cardinality({k \in DOMAIN results : ~results[k].success})

\* a "status" run returned over a running service whose snapshot it reports and a
\* service whose status query failed
C31_Witness ==
    /\ action = "status" /\ pc = "returned" /\ Len(results) = 2
    /\ results[1].success /\ results[1].status.desired_count = 1
    /\ cp[results[1].resource_id].desired = 1
    /\ ~results[2].success /\ results[2].error = "describe_services failed"
    /\ succeeded = 1 /\ failed = 1
    /\ Len(cpCalls) = 2

\* C32: is_ready() returns TRUE exactly when its status query succeeds and shows the
\* running count equal to the desired count, returns FALSE without raising when the
\* query fails, and makes no mutating call: the service is left as it was.
C32_ReadyIffCountsMatch ==
    h_ready # <<>> =>
        /\ ~h_ready[1].raised
        /\ h_ready[1].returned <=>
              /\ h_ready[1].env.describe = "ok"
              /\ 1 \in DOMAIN h_ready[1].before
              /\ h_ready[1].before[1].running = h_ready[1].before[1].desired
        /\ h_ready[1].after = h_ready[1].before
        /\ \A k \in DOMAIN h_ready[1].calls : ~IsMutating(h_ready[1].calls[k])

\* is_ready() answered FALSE because its status query failed, on a service whose
\* running count equals its desired count
C32_Witness ==
    /\ h_ready # <<>> /\ ~h_ready[1].returned
    /\ h_ready[1].env.describe = "error"
    /\ 1 \in DOMAIN h_ready[1].before
    /\ h_ready[1].before[1].running = h_ready[1].before[1].desired

TargetOf(e) == IF e.act = "stop" THEN 0 ELSE TargetCount

\* C34: a start() that succeeds leaves the desired count at the configured
\* default_desired_count (1 when not configured), whatever the count was before it:
\* the count a preceding stop() found is not restored, and a count above the target
\* is brought down to it.
C34_StartSetsConfiguredTarget ==
    \A k \in DOMAIN h_log :
        (h_log[k].act = "start" /\ h_log[k].result.success) =>
            /\ h_log[k].after[1].desired = TargetCount
            /\ (k > 1 /\ h_log[k - 1].act = "stop" /\ h_log[k - 1].result.success) =>
                  /\ h_log[k].before[1].desired = 0
                  /\ h_log[k].calls[2] = UpdateCall(1, TargetCount)

\* a service of desired count 2 was stopped and started again with no
\* default_desired_count configured: its desired count is 1
C34_Witness ==
    /\ h_pc = "ready" /\ Len(h_log) = 2
    /\ "default_desired_count" \notin DOMAIN h_cfg
    /\ h_log[1].act = "stop" /\ h_log[1].result.success
    /\ h_log[1].before[1].desired = 2
    /\ h_log[2].act = "start" /\ h_log[2].result.success
    /\ h_cp[1].desired = 1

\* C35: a start() or stop() that made its update call and succeeded returns as
\* previous_state the status snapshot read before the update, with the desired count
\* of before the call, and leaves the desired count at its target (0 for stop).
C35_PreviousStateIsPreCall ==
    \A k \in DOMAIN h_log :
        (HasMutation(h_log[k]) /\ h_log[k].result.success) =>
            /\ h_log[k].result.previous_state
                  = <<get_status(h_log[k].before, HResource, h_log[k].env).status>>
            /\ h_log[k].result.previous_state[1].desired_count
                  = h_log[k].before[1].desired
            /\ h_log[k].before[1].desired # TargetOf(h_log[k])
            /\ h_log[k].after[1].desired = TargetOf(h_log[k])

\* a stop() of a service of desired count 2 succeeded: previous_state shows 2 and
\* the service is at 0
C35_Witness ==
    /\ h_pc = "ready" /\ Len(h_log) = 1 /\ h_log[1].act = "stop"
    /\ h_log[1].result.success /\ HasMutation(h_log[1])
    /\ h_log[1].result.previous_state[1].desired_count = 2
    /\ h_cp[1].desired = 0

\* C36: when the update call of start() or stop() was accepted and the stabilization
\* wait then failed, the result has success = FALSE and no previous_state, and the
\* update stays applied: the desired count is the new target.
C36_FailedWaitKeepsMutation ==
    \A k \in DOMAIN h_log :
        (HasMutation(h_log[k]) /\ h_log[k].env.update /\ h_log[k].timed_out) =>
            /\ ~h_log[k].result.success
            /\ h_log[k].result.previous_state = <<>>
            /\ h_log[k].after[1].desired = TargetOf(h_log[k])
            /\ h_log[k].after[1].desired # h_log[k].before[1].desired

\* a start() of a stopped service whose wait timed out: the call failed and the
\* service has its new desired count
C36_Witness ==
    /\ h_pc = "ready" /\ Len(h_log) = 1 /\ h_log[1].act = "start"
    /\ h_log[1].timed_out /\ ~h_log[1].result.success
    /\ h_log[1].before[1].desired = 0
    /\ h_cp[1].desired = TargetCount

IdParts == split(b_resource.resource_id)

\* C33: a handler whose resource identifier is parent/child addresses the Control
\* Plane with cluster = parent and service = child; for a bare child the service is
\* the identifier and the cluster is the metadata's cluster_name, "default" without
\* one.
C33_AddressedByIdentifier ==
    b_pc = "called" =>
        /\ (Len(IdParts) = 2 /\ IdParts[1] # <<>> /\ IdParts[2] # <<>>) =>
              /\ b_call.cluster = IdParts[1]
              /\ b_call.service = IdParts[2]
        /\ Len(IdParts) = 1 =>
              /\ b_call.service = b_resource.resource_id
              /\ b_call.cluster = IF "cluster_name" \in DOMAIN b_resource.metadata
                                  THEN b_resource.metadata.cluster_name
                                  ELSE <<"default">>

\* C37: TagDiscovery.discover has raised exactly when one of its queries failed, and
\* then hands nothing to its caller; whenever it returns a list, every query it made
\* was answered, so the list is never that of the pages before a failed query.
C37_DiscoveryAllOrNothing ==
    /\ td_pc = "raised" <=> Len(td_sent) > Len(td_pages)
    /\ td_pc = "raised" => td_out = <<>>
    /\ td_pc = "returned" =>
          /\ Len(td_sent) = Len(td_pages)
          /\ Len(td_out) = Len(AllMappings(td_pages))

\* the query for the second page failed after a first page with a resource on it
C37_Witness ==
    /\ td_pc = "raised" /\ Len(td_pages) = 1 /\ Len(td_sent) = 2
    /\ Len(td_pages[1].mappings) = 1
    /\ td_out = <<>>

\* C38: start_resources and stop_resources never raise, a failed resource does not
\* keep the later ones from being processed, and the results returned are one per
\* input resource: a permutation of the inputs by resource id.
C38_OneResultPerResource ==
    /\ lo_pc # "raised"
    /\ lo_pc = "loop" => Len(lo_results) = lo_i - 1
    /\ lo_pc = "returned" =>
          /\ Len(lo_results) = Len(lo_input)
          /\ \A i \in DOMAIN lo_input :
                \E k \in DOMAIN lo_results : lo_results[k].resource_id = lo_input[i].id

\* the resource types the configuration does not enable
NotEnabled(cfg) == { t \in LOResourceTypes : cfg.resources[t] # "enabled" }

====
